---------------------------- MODULE Spec2Model ----------------------------
(***************************************************************************)
(* WorldPosta authentication proxy: the RADIUS front end, the Auth Engine  *)
(* and the cloud 2FA client, as asyncio tasks on one event loop.           *)
(*                                                                         *)
(* Every request is a task.  A task runs without interruption from one     *)
(* suspension point to the next (`running` names the task that holds the   *)
(* event loop); it suspends only where the code awaits network I/O of the  *)
(* cloud client (aiohttp) or asyncio.sleep.  The directory bind of         *)
(* ADClient.authenticate is a synchronous call: it does not suspend.       *)
(* Awaiting pending_lock never suspends either: the lock is only held      *)
(* across code without an await, so it is free whenever a task runs.       *)
(*                                                                         *)
(* Strings the code inspects (passwords, factors) are sequences of         *)
(* one-character strings.  Time is counted in ticks by per-task timers.    *)
(***************************************************************************)
EXTENDS Integers, Sequences, FiniteSets, TLC

(***************************************************************************)
(* Bounds of the model                                                     *)
(***************************************************************************)
\* tasks the receive loop creates in one run
NumHandlers == 2
\* api_config.push_timeout, in ticks (config.py:27 has 60 s)
PushTimeout == 2
\* poll_interval of wait_for_push, in ticks (worldposta_client.py:197 has 0.5 s)
PollInterval == 1
\* the 120 s window of the pending map, in ticks (server.py:122)
DedupWindow == 3
\* LDAP connections the factory has built
NumConns == 2
\* LDAP requests the server handles in one run
MaxOps == 3
\* ticks a directory search and bind can take
BindTime == 1

Handlers == 1..NumHandlers

\* the (source_ip, source_port, radius_id) tuples on the wire: one NAS, two packet ids
Keys == { <<"10.0.0.1", 40000, 1>>, <<"10.0.0.1", 40000, 2>> }
NoKey == <<"", 0, 0>>

\* WorldPostaClient.timeout: AuthEngine passes push_timeout as the HTTP timeout
ClientTimeout == PushTimeout

Max(a, b) == IF a > b THEN a ELSE b
Min(a, b) == IF a < b THEN a ELSE b

\* the age past which RADIUSServer._cleanup_pending would evict an entry (120 s):
\* shorter than a push flow that is configured to last longer
CleanupAge == 1

\* where the age of a task stops counting: past every span a claim compares it with
AgeCap == Max(DedupWindow, PushTimeout + PollInterval) + 1

(***************************************************************************)
(* Strings                                                                 *)
(***************************************************************************)
Range(s) == {s[i] : i \in 1..Len(s)}

Digits == {"0", "1", "2", "3", "4", "5", "6", "7", "8", "9"}

\* str.lower() on one character of the alphabet the model uses
LowerChar(c) ==
    CASE c = "P" -> "p"
      [] c = "U" -> "u"
      [] c = "S" -> "s"
      [] c = "H" -> "h"
      [] c = "O" -> "o"
      [] c = "D" -> "d"
      [] c = "C" -> "c"
      [] c = "N" -> "n"
      [] OTHER -> c

lower(s) == [i \in 1..Len(s) |-> LowerChar(s[i])]

\* str.isdigit(): non-empty and every character a digit
isdigit(s) == Len(s) > 0 /\ \A i \in 1..Len(s) : s[i] \in Digits

\* Optional values: None is the empty tuple, a value v is <<v>>
None == << >>
Some(v) == <<v>>

\* Python truthiness of an Optional[str]: None and "" are falsy
Truthy(opt) == opt # None /\ Len(opt[1]) > 0

PUSH == <<"p", "u", "s", "h">>


(***************************************************************************)
(* Auth Engine and cloud client: the pure parts                            *)
(***************************************************************************)
\* a split at the first comma instead
FirstComma(p) ==
    CHOOSE i \in 1..Len(p) : p[i] = "," /\ \A j \in 1..(i - 1) : p[j] # ","

\* index of the last comma of p (p holds one)
LastComma(p) ==
    CHOOSE i \in 1..Len(p) : p[i] = "," /\ \A j \in (i + 1)..Len(p) : p[j] # ","

\* AuthEngine._parse_password: rsplit(",", 1)
parse_password(p) ==
    IF "," \in Range(p)
    THEN <<SubSeq(p, 1, LastComma(p) - 1), Some(SubSeq(p, LastComma(p) + 1, Len(p)))>>
    ELSE <<p, None>>

\* a dispatch that takes five digits for an OTP code
FactorDispatchFive(factor, mode) ==
    IF Truthy(factor)
    THEN IF lower(factor[1]) = PUSH THEN "push"
         ELSE IF isdigit(factor[1]) /\ Len(factor[1]) >= 5 THEN "otp"
         ELSE "unknown_factor"
    ELSE IF mode = "push" THEN "push"
    ELSE IF mode = "otp" THEN "otp_required"
    ELSE "push"

\* AuthEngine.authenticate, "Determine 2FA method": which branch is taken
FactorDispatch(factor, mode) ==
    IF Truthy(factor)
    THEN IF lower(factor[1]) = PUSH THEN "push"
         ELSE IF isdigit(factor[1]) /\ Len(factor[1]) >= 6 THEN "otp"
         ELSE "unknown_factor"
    ELSE IF mode = "push" THEN "push"
    ELSE IF mode = "otp" THEN "otp_required"
    ELSE "push"

\* ADClient.authenticate: the answer of the directory and the (success, message) it gives
DirectoryAnswers ==
    {"bound", "no_such_user", "invalidCredentials", "user name is invalid",
     "account disabled", "account expired", "account locked", "unreachable"}

ad_authenticate(password, answer) ==
    IF Len(password) = 0 THEN <<FALSE, <<"Password required">> >>
    ELSE CASE answer = "bound" -> <<TRUE, <<"Authentication successful">> >>
           [] answer = "no_such_user" -> <<FALSE, <<"User not found">> >>
           [] answer = "invalidCredentials" -> <<FALSE, <<"Invalid password">> >>
           [] answer = "user name is invalid" -> <<FALSE, <<"Invalid username">> >>
           [] answer = "account disabled" -> <<FALSE, <<"Account disabled">> >>
           [] answer = "account expired" -> <<FALSE, <<"Account expired">> >>
           [] answer = "account locked" -> <<FALSE, <<"Account locked">> >>
           [] OTHER -> <<FALSE, <<"Authentication failed">> >>

\* an authenticate that goes on to the second factor whatever the bind said
AfterPrimaryNoReturn(ok) == "dispatch"

\* AuthEngine.authenticate: "if not primary_success: return", else the 2FA method
AfterPrimary(ok) == IF ok THEN "dispatch" ELSE "engine_return"

\* AuthEngine.authenticate_primary: pass-through when no directory is configured
authenticate_primary(ad, password, answer) ==
    IF ad THEN ad_authenticate(password, answer) ELSE <<TRUE, <<"Pass-through">> >>

\* WorldPostaClient._request: what an HTTP exchange with the cloud can end in.
\* "timeout" is aiohttp's total timeout; "transport_error" any other exception.
Faults == {"http_error", "transport_error", "timeout"}
SendAnswers == {"requestId"} \cup Faults
PollAnswers == {"approved", "denied", "expired", "pending", "unknown"} \cup Faults
OtpAnswers == {"valid", "invalid"} \cup Faults

\* WorldPostaClient.send_push: a request id, or None
send_push(answer) == IF answer = "requestId" THEN Some("r1") ELSE None

\* WorldPostaClient.check_push_status
check_push_status(answer) ==
    IF answer \in Faults THEN "error"
    ELSE IF answer \in {"approved", "denied", "expired", "pending"} THEN answer
    ELSE "error"

\* WorldPostaClient.verify_otp
verify_otp(answer) == answer = "valid"

\* the most polls one wait_for_push can issue: every iteration sleeps poll_interval
\* and the loop is left once push_timeout has passed; the poll count stops there
MaxPolls == PushTimeout + 1

\* a wait_for_push that never looks at the deadline
PollAgainForever(elapsed, timeout) == TRUE

\* WorldPostaClient.wait_for_push: the loop condition
PollAgain(elapsed, timeout) == elapsed < timeout

\* a wait_for_push that gives up on the first poll error
IsTerminalOrError(status) == status \in {"approved", "denied", "expired", "error"}

\* WorldPostaClient.wait_for_push: does a poll result end the wait
IsTerminal(status) == status \in {"approved", "denied", "expired"}

\* WorldPostaClient.authenticate_push: True iff the wait ended approved
client_authenticate_push(status) == status = "approved"

\* an authenticate_push that ignores what the client returned
authenticate_push_ignore(success) == "success"

\* AuthEngine.authenticate_push
authenticate_push(success) == IF success THEN "success" ELSE "push_timeout"

\* AuthEngine.authenticate_otp
authenticate_otp(valid) == IF valid THEN "success" ELSE "otp_invalid"

\* AuthEngine.authenticate, "Return result"
EngineReturnValue(result) ==
    IF result = "success" THEN <<"success", <<"Authentication successful">> >>
    ELSE <<result, <<"2FA failed: ", result>> >>

AuthResults ==
    {"success", "primary_failed", "push_failed", "push_denied", "push_timeout",
     "otp_invalid", "user_not_found", "error"}

\* a reply that accepts whatever the verdict is
CreateReplyAccept(result, message) ==
    [code |-> "Access-Accept", msg |-> <<"Authentication successful">>]

\* RADIUSServer._handle_auth_request: the reply for an engine verdict
CreateReply(result, message) ==
    IF result = "success"
    THEN [code |-> "Access-Accept", msg |-> <<"Authentication successful">>]
    ELSE [code |-> "Access-Reject", msg |-> message]

\* a duplicate check that never finds the key
is_duplicate_never(pend, key) == FALSE

\* RADIUSServer._is_duplicate
is_duplicate(pend, key) == pend[key] # 0

(***************************************************************************)
(* LDAP front end: the pure parts                                          *)
(***************************************************************************)
\* ADClientConfig.bind_dn of the directory profile the LDAP server is bound to
ServiceDn == <<"s", "@", "d">>
\* the exempt_ous list WorldPostaLDAPServer._is_exempt_from_2fa reads
ExemptOus == { <<"o">> }

\* "@" in s
HasAt(s) == "@" \in Range(s)

\* s.split("@")[0]
BeforeAt(s) ==
    IF HasAt(s)
    THEN SubSeq(s, 1, (CHOOSE i \in 1..Len(s) :
                          s[i] = "@" /\ \A j \in 1..(i - 1) : s[j] # "@") - 1)
    ELSE s

\* s.endswith(t)
EndsWith(s, t) == Len(s) >= Len(t) /\ SubSeq(s, Len(s) - Len(t) + 1, Len(s)) = t

\* WorldPostaLDAPServer._is_exempt_from_2fa: one entry of exempt_ous
MatchesExemptOu(dn_lower, exempt_dn) ==
    LET exempt_lower == lower(exempt_dn)
    IN  \/ dn_lower = exempt_lower
        \/ HasAt(dn_lower) /\ HasAt(exempt_lower)
              /\ BeforeAt(dn_lower) = BeforeAt(exempt_lower)
        \/ EndsWith(dn_lower, <<",">> \o exempt_lower)

\* WorldPostaLDAPServer._is_exempt_from_2fa: (is_exempt, reason)
is_exempt_from_2fa(cfg, first_bind_done, dn) ==
    LET dn_lower == lower(dn)
        service_dn == lower(ServiceDn)
    IN  IF cfg.exempt_primary_bind /\ ~first_bind_done
        THEN <<TRUE, "exempt_primary_bind">>
        ELSE IF cfg.ad /\ Len(ServiceDn) > 0
                /\ \/ dn_lower = service_dn
                   \/ HasAt(dn_lower) /\ HasAt(service_dn)
                         /\ BeforeAt(dn_lower) = BeforeAt(service_dn)
        THEN <<TRUE, "service account">>
        ELSE IF \E e \in ExemptOus : MatchesExemptOu(dn_lower, e)
        THEN <<TRUE, "exempt_ou">>
        ELSE <<FALSE, "">>

\* s.startswith(t)
StartsWith(s, t) == Len(s) >= Len(t) /\ SubSeq(s, 1, Len(t)) = t

\* s.split(ch)[0]
BeforeFirst(s, ch) ==
    IF ch \in Range(s)
    THEN SubSeq(s, 1, (CHOOSE i \in 1..Len(s) :
                          s[i] = ch /\ \A j \in 1..(i - 1) : s[j] # ch) - 1)
    ELSE s

\* s.split(ch)[-1]
AfterLast(s, ch) ==
    IF ch \in Range(s)
    THEN SubSeq(s, (CHOOSE i \in 1..Len(s) :
                       s[i] = ch /\ \A j \in (i + 1)..Len(s) : s[j] # ch) + 1, Len(s))
    ELSE s

\* WorldPostaLDAPServer._extract_username
extract_username(dn) ==
    LET dn_lower == lower(dn)
        first == BeforeFirst(dn, ",")
    IN  IF StartsWith(dn_lower, <<"c", "n", "=">>)
        THEN SubSeq(first, 4, Len(first))
        ELSE IF StartsWith(dn_lower, <<"u", "i", "d", "=">>)
        THEN SubSeq(first, 5, Len(first))
        ELSE IF "@" \in Range(dn) /\ "=" \notin Range(dn)
        THEN BeforeFirst(dn, "@")
        ELSE IF "\\" \in Range(dn)
        THEN AfterLast(dn, "\\")
        ELSE dn

\* WorldPostaLDAPServer._convert_filter, the parts of a substrings filter
RECURSIVE SubstringParts(_)
SubstringParts(subs) ==
    IF subs = << >> THEN << >>
    ELSE LET sub == Head(subs)
             part == CASE sub.kind = "initial" -> sub.val \o <<"*">>
                       [] sub.kind = "any" -> <<"*">> \o sub.val \o <<"*">>
                       [] sub.kind = "final" -> <<"*">> \o sub.val
                       [] OTHER -> << >>
         IN  part \o SubstringParts(Tail(subs))

\* WorldPostaLDAPServer._convert_filter: the filter of a SEARCH as the RFC 4515
\* text handed to the directory; attribute names and values are copied as they are
RECURSIVE convert_filter(_)
RECURSIVE JoinFilters(_)
JoinFilters(fs) ==
    IF fs = << >> THEN << >> ELSE convert_filter(Head(fs)) \o JoinFilters(Tail(fs))

convert_filter(filt) ==
    CASE filt.op = "and" -> <<"(", "&">> \o JoinFilters(filt.subs) \o <<")">>
      [] filt.op = "or" -> <<"(", "|">> \o JoinFilters(filt.subs) \o <<")">>
      [] filt.op = "not" -> <<"(", "!">> \o convert_filter(filt.value) \o <<")">>
      [] filt.op = "present" -> <<"(">> \o filt.attr \o <<"=", "*", ")">>
      [] filt.op = "equalityMatch" ->
            <<"(">> \o filt.attr \o <<"=">> \o filt.val \o <<")">>
      [] filt.op = "substrings" ->
            IF SubstringParts(filt.subs) # << >>
            THEN <<"(">> \o filt.attr \o <<"=">> \o SubstringParts(filt.subs) \o <<")">>
            ELSE <<"(">> \o filt.attr \o <<"=", "*", ")">>
      [] filt.op = "greaterOrEqual" ->
            <<"(">> \o filt.attr \o <<">", "=">> \o filt.val \o <<")">>
      [] filt.op = "lessOrEqual" ->
            <<"(">> \o filt.attr \o <<"<", "=">> \o filt.val \o <<")">>
      [] filt.op = "approxMatch" ->
            <<"(">> \o filt.attr \o <<"~", "=">> \o filt.val \o <<")">>
      [] OTHER -> <<"(", "o", "=", "*", ")">>

\* a bind is anonymous only when it names nobody and carries nothing
IsAnonymousBoth(dn, auth) == Len(dn) = 0 /\ Len(auth) = 0

\* WorldPostaLDAPServer.handle_LDAPBindRequest: "not dn or request.auth == b''"
IsAnonymous(dn, auth) == Len(dn) = 0 \/ Len(auth) = 0

\* a flag that records whether the last bind went well
FlagAfterBindLastOk(done, outcome) == outcome \in {"bound", "verdict"}

\* WorldPostaLDAPServer.handle_LDAPBindRequest: _first_bind_done after a BIND that
\* ended in outcome.  The flag is set after a directory bind that returned (bound or
\* refused) and after the engine returned its verdict; the anonymous return and
\* the except clauses leave it alone.
FlagAfterBind(done, outcome) ==
    IF outcome \in {"bound", "refused", "verdict"} THEN TRUE ELSE done

\* a bind that succeeds whatever the verdict is
BindResultAccept(result, message) == [code |-> 0, msg |-> << >>]

\* WorldPostaLDAPServer.handle_LDAPBindRequest: the BindResponse for an engine verdict
BindResult(result, message) ==
    IF result = "success"
    THEN [code |-> 0, msg |-> << >>]
    ELSE [code |-> 49, msg |-> message]

\* an exempt bind that succeeds whatever the directory says
ExemptResultAccept(answer) == [code |-> 0, msg |-> << >>]

\* WorldPostaLDAPServer.handle_LDAPBindRequest: the BindResponse of the exempt path
ExemptResult(answer) ==
    CASE answer = "bound" -> [code |-> 0, msg |-> << >>]
      [] answer = "refused" -> [code |-> 49, msg |-> <<"Invalid credentials">>]
      [] OTHER -> [code |-> 1, msg |-> <<"exception">>]

(***************************************************************************)
(* Inputs                                                                  *)
(***************************************************************************)
\* passwords a caller of AuthEngine.authenticate supplies
Passwords ==
    { <<"p", "w">>,
      <<"p", "w", ",">>,
      <<",", "p", "u", "s", "h">>,
      <<"p", "w", ",", "p", "u", "s", "h">>,
      <<"p", "w", ",", "P", "u", "S", "h">>,
      <<"a", ",", "b", ",", "p", "u", "s", "h">>,
      <<"p", "w", ",", "1", "2", "3", "4", "5", "6">>,
      <<"p", "w", ",", "1", "2", "3", "4", "5", "6", "7">>,
      <<"p", "w", ",", "1", "2", "3", "4", "5">>,
      <<"p", "w", ",", "1", "2", "3", "4", "5", "a">>,
      <<"p", "w", ",", "p", "u", "s", "h", "y">> }

\* User-Password attributes the RADIUS clients of the model send
RadiusPasswords ==
    { <<"p", "w">>,
      <<"p", "w", ",", "1", "2", "3", "4", "5", "6">>,
      <<"p", "w", ",", "x">> }

\* bind DNs the LDAP clients of the model send: anonymous, a user, the service
\* account under another domain and another case, an entry of the exempt OU
BindDns ==
    { << >>,
      <<"u", "@", "d">>,
      <<"S", "@", "e">>,
      <<"c", "n", "=", "u", ",", "O">> }

\* bind DNs for the username extraction: an RDN type or none, a value, the rest
DnPrefixes == { << >>, <<"c", "n", "=">>, <<"C", "N", "=">>, <<"u", "i", "d", "=">> }
DnValues ==
    { <<"b">>, <<"a", "@", "b">>, <<"d", "\\", "u">>, <<"u", "i", "d", "=", "b">>,
      <<"c", "n", "=", "b">>, <<"b", "=", "a">> }
DnRests == { << >>, <<",", "o">>, <<"@", "d">> }
ExtractDns == {p \o v \o r : p \in DnPrefixes, v \in DnValues, r \in DnRests}

\* the filters of the SEARCH requests: every supported node, over one attribute
\* and a few assertion values
FilterAttrs == { <<"a">> }
FilterValues == { <<"b">>, <<"*">>, <<"b", "*">> }
SubstringLists ==
    { <<[kind |-> "initial", val |-> <<"b">>]>>,
      <<[kind |-> "any", val |-> <<"b">>]>>,
      <<[kind |-> "final", val |-> <<"b">>]>>,
      <<[kind |-> "initial", val |-> <<"b">>], [kind |-> "final", val |-> <<"b">>]>> }
LeafFilters ==
    {[op |-> "present", attr |-> a] : a \in FilterAttrs}
    \cup {[op |-> o, attr |-> a, val |-> v] :
             o \in {"equalityMatch", "greaterOrEqual", "lessOrEqual", "approxMatch"},
             a \in FilterAttrs, v \in FilterValues}
    \cup {[op |-> "substrings", attr |-> a, subs |-> s] :
             a \in FilterAttrs, s \in SubstringLists}
SomeLeaves ==
    { [op |-> "present", attr |-> <<"a">>],
      [op |-> "equalityMatch", attr |-> <<"a">>, val |-> <<"b">>] }
Filters ==
    LeafFilters
    \cup {[op |-> "not", value |-> f] : f \in SomeLeaves}
    \cup {[op |-> o, subs |-> <<f, g>>] : o \in {"and", "or"}, f \in SomeLeaves, g \in SomeLeaves}

\* credentials of the LDAP binds
LdapPasswords ==
    { << >>, <<"p", "w">>, <<"p", "w", ",", "1", "2", "3", "4", "5", "6">> }

\* mode of AuthEngine.authenticate: its documented values and those config.py can set
EngineModes == {"auto", "push", "otp", "concat", "challenge"}
\* RADIUSServerConfig.mode as ConfigParser._parse_radius_server sets it
RadiusModes == {"auto", "concat", "challenge"}

\* what a datagram on the RADIUS socket can be
DatagramKinds == {"access_request", "unknown_client", "malformed", "other_code"}

(***************************************************************************)
(* State                                                                   *)
(***************************************************************************)
VARIABLES
    task,      \* per task: its position, its locals and its history
    pending,   \* RADIUSServer.pending: key -> the task that inserted the entry (its
               \* timestamp is that task's arrival), 0 when the key is absent
    running,   \* the task that holds the event loop, 0 when the loop is idle
    sent,      \* the datagrams passed to socket.sendto, in order
    config,    \* immutable configuration records
    conn,      \* per LDAP connection: the WorldPostaLDAPServer protocol object, the
               \* position of its handler and what it has sent
    proxy      \* AuthProxy and its RADIUS server: running, the UDP socket, the HTTP
               \* session of the engine's cloud client, the calls of stop()

vars == <<task, pending, running, sent, config, conn, proxy>>

NewTask ==
    [ pc |-> "unused", caller |-> "none", kind |-> "none", key |-> NoKey,
      password |-> << >>, mode |-> "none", real_password |-> << >>,
      factor |-> None, primary |-> None, primary_msg |-> << >>,
      request_id |-> None, last |-> "none", wait |-> "none", otp |-> "none",
      result |-> "none", message |-> << >>, response |-> << >>,
      timer |-> 0, elapsed |-> 0, age |-> 0, near |-> {},
      nBind |-> 0, nSend |-> 0, nPoll |-> 0, nOtp |-> 0, nAuth |-> 0,
      nVerdict |-> 0, fault |-> "none", retried |-> FALSE, seen |-> 0 ]

\* AuthProxy.start: RADIUSServer.start has bound the socket and set running; the
\* cloud client has no session before its first request
NewProxy == [running |-> TRUE, socket |-> "open", session |-> "none", stops |-> 0]

Conns == 1..NumConns

\* WorldPostaLDAPServer.__init__: a connection just built by the factory.  dn and
\* reason belong to the BIND being handled, out is what was written to the
\* transport; nOps counts the requests handled, nBinds the BINDs among them and
\* nExempt the BINDs that "exempt_primary_bind (first bind in connection)" exempted.
NewConn ==
    [ first_bind_done |-> FALSE, auth_engine |-> FALSE, pc |-> "idle",
      dn |-> << >>, reason |-> "", out |-> << >>, dir |-> {}, unbound |-> FALSE,
      nOps |-> 0, nBinds |-> 0, nExempt |-> 0 ]

Configs == [mode : RadiusModes, fail_open : BOOLEAN, ad : BOOLEAN]

\* the configuration an LDAP server runs with: a directory profile is bound or
\* not (ad); the LDAPServerConfig of config.py declares neither exempt_primary_bind
\* nor exempt_ous, a configuration object that carries them has declared = TRUE
LdapConfigs ==
    {c \in [mode : {"auto"}, fail_open : {FALSE}, ad : BOOLEAN,
            declared : BOOLEAN, exempt_primary_bind : BOOLEAN] :
        c.exempt_primary_bind => c.declared}

\* the configuration of the runs with several tasks
DefaultConfig == [mode |-> "auto", fail_open |-> FALSE, ad |-> TRUE]

\* after RADIUSServer.__init__ and start(): no task, empty pending map
Init ==
    /\ task = [h \in Handlers |-> NewTask]
    /\ pending = [k \in Keys |-> 0]
    /\ running = 0
    /\ sent = << >>
    /\ conn = [c \in Conns |-> NewConn]
    /\ proxy = NewProxy
    /\ config = DefaultConfig

\* the same, under every configuration
InitOne ==
    /\ task = [h \in Handlers |-> NewTask]
    /\ pending = [k \in Keys |-> 0]
    /\ running = 0
    /\ sent = << >>
    /\ conn = [c \in Conns |-> NewConn]
    /\ proxy = NewProxy
    /\ config \in Configs

\* one call of AuthEngine.authenticate, entered by a caller other than the RADIUS server
InitEngine ==
    /\ \E pw \in Passwords, m \in EngineModes :
          task = [h \in Handlers |->
                    IF h = 1
                    THEN [NewTask EXCEPT !.pc = "authenticate", !.caller = "direct",
                                         !.password = pw, !.mode = m]
                    ELSE NewTask]
    /\ pending = [k \in Keys |-> 0]
    /\ running = 1
    /\ sent = << >>
    /\ conn = [c \in Conns |-> NewConn]
    /\ proxy = NewProxy
    /\ config \in [mode : {"auto"}, fail_open : {FALSE}, ad : BOOLEAN]

\* the LDAP server with its connections, before any request
InitLdap ==
    /\ task = [h \in Handlers |-> NewTask]
    /\ pending = [k \in Keys |-> 0]
    /\ running = 0
    /\ sent = << >>
    /\ conn = [c \in Conns |-> NewConn]
    /\ proxy = NewProxy
    /\ config \in LdapConfigs

Set(h, rec) == task' = [task EXCEPT ![h] = rec]

(***************************************************************************)
(* RADIUS front end                                                        *)
(***************************************************************************)
\* tasks with the key k that arrived no more than DedupWindow ticks ago
RecentCopies(k) ==
    {g \in Handlers : task[g].pc # "unused" /\ task[g].key = k /\ task[g].age <= DedupWindow}

\* RADIUSServer._receive_loop: recvfrom returns a datagram and create_task
\* schedules _process_and_respond for it.  The loop itself never waits for a task.
ReceiveLoop(h, k, kind, pw) ==
    /\ running = 0
    /\ proxy.running
    /\ task[h].pc = "unused"
    /\ \A g \in Handlers : g < h => task[g].pc # "unused"
    /\ task' = [g \in Handlers |->
                  IF g = h
                  THEN [NewTask EXCEPT !.pc = "created", !.caller = "radius",
                                       !.kind = kind, !.key = k, !.password = pw,
                                       !.near = RecentCopies(k)]
                  ELSE IF \A f \in Handlers \ {h} : task[f].pc # "unused"
                       THEN [task[g] EXCEPT !.age = 0]
                       ELSE task[g]]
    /\ UNCHANGED <<proxy, conn, pending, running, sent, config>>

\* a _handle_packet that authenticates every datagram
HandlePacketAny(h) ==
    /\ running = 0
    /\ task[h].pc = "created"
    /\ running' = h
    /\ Set(h, [task[h] EXCEPT !.pc = "check_duplicate"])
    /\ UNCHANGED <<proxy, conn, pending, sent, config>>

\* RADIUSServer._handle_packet: secret lookup, decoding, packet code
HandlePacket(h) ==
    /\ running = 0
    /\ task[h].pc = "created"
    /\ running' = h
    /\ IF task[h].kind = "access_request"
       THEN Set(h, [task[h] EXCEPT !.pc = "check_duplicate"])
       ELSE Set(h, [task[h] EXCEPT !.pc = "respond", !.response = << >>])
    /\ UNCHANGED <<proxy, conn, pending, sent, config>>

\* RADIUSServer._handle_auth_request: "Check for duplicate"
CheckDuplicate(h) ==
    /\ running = h
    /\ task[h].pc = "check_duplicate"
    /\ LET rec == [task[h] EXCEPT !.seen = pending[task[h].key]]
       IN  IF is_duplicate(pending, task[h].key)
           THEN Set(h, [rec EXCEPT !.pc = "respond", !.response = << >>])
           ELSE Set(h, [rec EXCEPT !.pc = "mark_pending"])
    /\ UNCHANGED <<proxy, conn, pending, running, sent, config>>

\* a _mark_pending that forgets the insert
MarkPendingNoInsert(h) ==
    /\ running = h
    /\ task[h].pc = "mark_pending"
    /\ Set(h, [task[h] EXCEPT !.pc = "authenticate"])
    /\ UNCHANGED <<proxy, conn, pending, running, sent, config>>

\* a _mark_pending whose lock acquisition suspends the task before the insert
MarkPendingSuspends(h) ==
    /\ task[h].pc = "mark_pending"
    /\ \/ /\ running = h
          /\ task[h].retried = FALSE
          /\ running' = 0
          /\ Set(h, [task[h] EXCEPT !.retried = TRUE])
          /\ UNCHANGED pending
       \/ /\ running = 0
          /\ running' = h
          /\ pending' = [pending EXCEPT ![task[h].key] = h]
          /\ Set(h, [task[h] EXCEPT !.pc = "authenticate", !.retried = FALSE])
    /\ UNCHANGED <<proxy, conn, sent, config>>

\* RADIUSServer._mark_pending: the lock is free, so the await does not suspend
MarkPending(h) ==
    /\ running = h
    /\ task[h].pc = "mark_pending"
    /\ pending' = [pending EXCEPT ![task[h].key] = h]
    /\ Set(h, [task[h] EXCEPT !.pc = "authenticate"])
    /\ UNCHANGED <<proxy, conn, running, sent, config>>

\* RADIUSServer._handle_auth_request: the reply built from the engine's return value
CreateResponse(h) ==
    /\ running = h
    /\ task[h].pc = "engine_return"
    /\ task[h].caller = "radius"
    /\ Set(h, [task[h] EXCEPT
                 !.pc = "clear_pending",
                 !.response = <<CreateReply(task[h].result, task[h].message)>>])
    /\ UNCHANGED <<proxy, conn, pending, running, sent, config>>

\* a finally clause that leaves the key in the pending map
ClearPendingSkip(h) ==
    /\ running = h
    /\ task[h].pc = "clear_pending"
    /\ Set(h, [task[h] EXCEPT !.pc = "respond"])
    /\ UNCHANGED <<proxy, conn, pending, running, sent, config>>

\* RADIUSServer._clear_pending, from the finally clause
ClearPending(h) ==
    /\ running = h
    /\ task[h].pc = "clear_pending"
    /\ pending' = [pending EXCEPT ![task[h].key] = 0]
    /\ Set(h, [task[h] EXCEPT !.pc = "respond"])
    /\ UNCHANGED <<proxy, conn, running, sent, config>>

\* RADIUSServer._process_and_respond: sendto when the response is not empty; on a
\* closed socket sendto raises and the except clause logs it
ProcessAndRespond(h) ==
    /\ running = h
    /\ task[h].pc = "respond"
    /\ sent' = IF task[h].response # << >> /\ proxy.socket = "open"
               THEN Append(sent, [task |-> h, to |-> task[h].key,
                                  code |-> task[h].response[1].code,
                                  msg |-> task[h].response[1].msg])
               ELSE sent
    /\ Set(h, [task[h] EXCEPT !.pc = "done"])
    /\ running' = 0
    /\ UNCHANGED <<proxy, conn, pending, config>>

\* AuthProxy.stop, run as a task of the event loop: RADIUSServer.stop clears
\* running and closes the socket, AuthEngine.close closes the HTTP session if one
\* is open.  No task is cancelled.  stop() is called by the signal handler and
\* once more by the finally clause of main(), which closes the event loop after
\* it: from then on the loop is neither idle nor held by a task.
NoLoop == 0 - 1

stop ==
    /\ running = 0
    /\ proxy' = [running |-> FALSE, socket |-> "closed",
                 session |-> IF proxy.session = "open" THEN "closed" ELSE proxy.session,
                 stops |-> proxy.stops + 1]
    /\ running' = IF proxy.stops = 1 THEN NoLoop ELSE running
    /\ UNCHANGED <<task, pending, sent, config, conn>>

(***************************************************************************)
(* Auth Engine                                                             *)
(***************************************************************************)
\* AuthEngine.authenticate: entry and "Parse password for appended factor"
Authenticate(h) ==
    /\ running = h
    /\ task[h].pc = "authenticate"
    /\ Set(h, [task[h] EXCEPT
                 !.pc = "primary",
                 !.nAuth = 1,
                 !.mode = IF task[h].caller = "radius" THEN config.mode ELSE @,
                 !.real_password = parse_password(task[h].password)[1],
                 !.factor = parse_password(task[h].password)[2]])
    /\ UNCHANGED <<proxy, conn, pending, running, sent, config>>

\* ADClient.authenticate contacts the directory: a directory is configured and the
\* password is not empty
\* an ADClient.authenticate that searches and binds before it looks at the password
ContactedAlways(h) == config.ad

Contacted(h) == config.ad /\ Len(task[h].real_password) > 0

\* AuthEngine.authenticate_primary calls ADClient.authenticate: the search and the
\* bind are synchronous ldap3 calls, so the task keeps the event loop while they run
Bind(h) ==
    /\ running = h
    /\ task[h].pc = "primary"
    /\ Contacted(h)
    /\ Set(h, [task[h] EXCEPT !.pc = "binding", !.nBind = 1, !.timer = 0])
    /\ UNCHANGED <<proxy, conn, pending, running, sent, config>>

\* AuthEngine.authenticate: "Primary authentication" returns
Primary(h, answer) ==
    /\ running = h
    /\ \/ task[h].pc = "binding"
       \/ task[h].pc = "primary" /\ ~Contacted(h)
    /\ LET r == authenticate_primary(config.ad, task[h].real_password, answer)
       IN  Set(h, [task[h] EXCEPT
                     !.primary = Some(r[1]),
                     !.primary_msg = r[2],
                     !.timer = 0,
                     !.pc = AfterPrimary(r[1]),
                     !.result = IF r[1] THEN @ ELSE "primary_failed",
                     !.message = IF r[1] THEN @ ELSE r[2]])
    /\ UNCHANGED <<proxy, conn, pending, running, sent, config>>

\* AuthEngine.authenticate: "Determine 2FA method"
Dispatch(h) ==
    /\ running = h
    /\ task[h].pc = "dispatch"
    /\ LET d == FactorDispatch(task[h].factor, task[h].mode)
       IN  CASE d = "push" -> Set(h, [task[h] EXCEPT !.pc = "send_push"])
             [] d = "otp" -> Set(h, [task[h] EXCEPT !.pc = "verify_otp"])
             [] d = "unknown_factor" ->
                  Set(h, [task[h] EXCEPT
                            !.pc = "engine_return", !.result = "error",
                            !.message = <<"Unknown factor: ">> \o task[h].factor[1]])
             [] OTHER ->
                  Set(h, [task[h] EXCEPT
                            !.pc = "engine_return", !.result = "error",
                            !.message = <<"OTP code required">>])
    /\ UNCHANGED <<proxy, conn, pending, running, sent, config>>

\* the engine's return after a second factor ended with `result`
Finish(rec, result) ==
    [rec EXCEPT !.pc = "engine_return", !.nVerdict = @ + 1,
                !.result = EngineReturnValue(result)[1],
                !.message = EngineReturnValue(result)[2]]

\* the push flow ended: wait_for_push returned `status`, or send_push failed ("none");
\* the locals of wait_for_push are gone
FinishPush(rec, status) ==
    Finish([rec EXCEPT !.wait = status, !.elapsed = 0],
           authenticate_push(client_authenticate_push(status)))

\* WorldPostaClient._get_session: the session is created when there is none or
\* the one there is closed.  proxy.session is the session of the engine the
\* RADIUS server holds, the one AuthProxy.stop closes.
get_session(h) ==
    IF task[h].caller = "radius" THEN [proxy EXCEPT !.session = "open"] ELSE proxy

\* an HTTP exchange may end in "timeout" only when the client timeout has run out
AnswerInTime(h, answer) == answer = "timeout" => task[h].timer = ClientTimeout

\* WorldPostaClient.send_push: the POST is issued and the task suspends
SendPushCall(h) ==
    /\ running = h
    /\ task[h].pc = "send_push"
    /\ Set(h, [task[h] EXCEPT !.pc = "send_wait", !.nSend = @ + 1, !.timer = 0])
    /\ running' = 0
    /\ proxy' = get_session(h)
    /\ UNCHANGED <<conn, pending, sent, config>>

\* WorldPostaClient.send_push returns; authenticate_push starts wait_for_push
SendPushReturn(h, answer) ==
    /\ running = 0
    /\ task[h].pc = "send_wait"
    /\ AnswerInTime(h, answer)
    /\ running' = h
    /\ LET rec == [task[h] EXCEPT !.request_id = send_push(answer),
                                  !.fault = IF answer \in Faults THEN answer ELSE @,
                                  !.timer = 0]
       IN  IF send_push(answer) = None
           THEN Set(h, FinishPush(rec, "none"))
           ELSE Set(h, [rec EXCEPT !.pc = "poll_loop", !.elapsed = 0])
    /\ UNCHANGED <<proxy, conn, pending, sent, config>>

\* WorldPostaClient.wait_for_push: the loop head; a poll is issued or the wait expires
PollLoop(h) ==
    /\ running = h
    /\ task[h].pc = "poll_loop"
    /\ IF PollAgain(task[h].elapsed, PushTimeout)
       THEN /\ Set(h, [task[h] EXCEPT !.pc = "poll_wait", !.nPoll = Min(@ + 1, MaxPolls),
                                      !.timer = 0])
            /\ running' = 0
            /\ proxy' = get_session(h)
       ELSE /\ Set(h, FinishPush(task[h], "expired"))
            /\ running' = h
            /\ UNCHANGED proxy
    /\ UNCHANGED <<conn, pending, sent, config>>

\* WorldPostaClient.wait_for_push: a poll returns; terminal statuses end the wait,
\* anything else goes to asyncio.sleep(poll_interval)
PollReturn(h, answer) ==
    /\ running = 0
    /\ task[h].pc = "poll_wait"
    /\ AnswerInTime(h, answer)
    /\ LET st == check_push_status(answer)
           rec == [task[h] EXCEPT !.last = st, !.timer = 0,
                                  !.fault = IF answer \in Faults THEN answer ELSE @,
                                  !.retried = @ \/ st = "error"]
       IN  IF IsTerminal(st)
           THEN /\ Set(h, FinishPush(rec, st))
                /\ running' = h
           ELSE /\ Set(h, [rec EXCEPT !.pc = "sleeping"])
                /\ running' = 0
    /\ UNCHANGED <<proxy, conn, pending, sent, config>>

\* asyncio.sleep(poll_interval) is over
Wake(h) ==
    /\ running = 0
    /\ task[h].pc = "sleeping"
    /\ task[h].timer >= PollInterval
    /\ running' = h
    /\ Set(h, [task[h] EXCEPT !.pc = "poll_loop", !.timer = 0])
    /\ UNCHANGED <<proxy, conn, pending, sent, config>>

\* WorldPostaClient.verify_otp: the POST is issued and the task suspends
VerifyOtpCall(h) ==
    /\ running = h
    /\ task[h].pc = "verify_otp"
    /\ Set(h, [task[h] EXCEPT !.pc = "otp_wait", !.nOtp = @ + 1, !.timer = 0])
    /\ running' = 0
    /\ proxy' = get_session(h)
    /\ UNCHANGED <<conn, pending, sent, config>>

\* WorldPostaClient.verify_otp returns
VerifyOtpReturn(h, answer) ==
    /\ running = 0
    /\ task[h].pc = "otp_wait"
    /\ AnswerInTime(h, answer)
    /\ running' = h
    /\ Set(h, Finish([task[h] EXCEPT
                         !.otp = answer, !.timer = 0,
                         !.fault = IF answer \in Faults THEN answer ELSE @],
                     authenticate_otp(verify_otp(answer))))
    /\ UNCHANGED <<proxy, conn, pending, sent, config>>

\* AuthEngine.authenticate returns to a caller other than the RADIUS server
Returned(h) ==
    /\ running = h
    /\ task[h].pc = "engine_return"
    /\ task[h].caller = "direct"
    /\ Set(h, [task[h] EXCEPT !.pc = "returned"])
    /\ running' = 0
    /\ UNCHANGED <<proxy, conn, pending, sent, config>>

(***************************************************************************)
(* Time                                                                    *)
(***************************************************************************)
InHttp(rec) == rec.pc \in {"send_wait", "poll_wait", "otp_wait"}

\* an exception that leaves the handler without passing a finally clause
HandlerRaisedNoFinally(h) ==
    /\ running = 0
    /\ task[h].caller = "radius"
    /\ InHttp(task[h])
    /\ running' = h
    /\ Set(h, [task[h] EXCEPT !.pc = "respond", !.response = << >>,
                              !.fault = "exception", !.timer = 0])
    /\ UNCHANGED <<proxy, conn, pending, sent, config>>

\* RADIUSServer._handle_auth_request, an exception comes out of
\* auth_engine.authenticate: the cloud answers with a JSON body that is no object
\* and data.get raises in the client.  The exception passes the finally clause,
\* which clears the pending key, and ends in the except clause of
\* _process_and_respond: there is no response to send.
HandlerRaised(h) ==
    /\ running = 0
    /\ task[h].caller = "radius"
    /\ InHttp(task[h])
    /\ running' = h
    /\ Set(h, [task[h] EXCEPT !.pc = "clear_pending", !.response = << >>,
                              !.fault = "exception", !.timer = 0])
    /\ UNCHANGED <<proxy, conn, pending, sent, config>>

\* the event loop is held by a task inside a synchronous directory call
Blocked == running \in Handlers /\ task[running].pc = "binding"

\* One tick passes while the event loop is idle or held by a directory call.  An
\* HTTP exchange never outlives the client timeout when the loop is free to end it;
\* a sleeping task may be woken late.  The age of a task is read only when a later
\* datagram arrives, so it stops once no task is left to create.
Tick ==
    /\ running = 0 \/ Blocked
    /\ running = 0 => \A h \in Handlers : InHttp(task[h]) => task[h].timer < ClientTimeout
    /\ \A h \in Handlers : task[h].pc = "binding" => task[h].timer < BindTime
    /\ task' = [h \in Handlers |->
                  [task[h] EXCEPT
                     !.timer = IF InHttp(task[h]) THEN Min(@ + 1, ClientTimeout)
                               ELSE IF task[h].pc = "sleeping" THEN Min(@ + 1, PollInterval)
                               ELSE IF task[h].pc = "binding" THEN @ + 1
                               ELSE @,
                     !.elapsed = IF task[h].pc \in {"poll_wait", "sleeping"}
                                 THEN Min(@ + 1, PushTimeout) ELSE @,
                     !.age = IF task[h].pc \notin {"unused", "returned"}
                                /\ \E g \in Handlers : task[g].pc = "unused"
                             THEN Min(@ + 1, AgeCap) ELSE @]]
    /\ UNCHANGED <<proxy, conn, pending, running, sent, config>>

(***************************************************************************)
(* LDAP front end                                                          *)
(***************************************************************************)
\* the Twisted reactor is not inside a handler
ReactorIdle == \A c \in Conns : conn[c].pc = "idle"

RECURSIVE SumOps(_, _)
SumOps(f, n) == IF n = 0 THEN 0 ELSE f[n].nOps + SumOps(f, n - 1)
\* requests handled so far, on all connections
OpsHandled == SumOps(conn, NumConns)

\* a reactor that hands a request to its handler while another handler waits
DeliverWhileWaiting(c) == running = 0 /\ OpsHandled < MaxOps

\* the reactor delivers the next request of connection c to its handler
Deliver(c) == ReactorIdle /\ running = 0 /\ OpsHandled < MaxOps

\* reply(...): a response is written to the transport of the connection
Reply(rec, op, code, msg) ==
    [rec EXCEPT !.out = Append(@, [op |-> op, code |-> code, msg |-> msg])]

\* the reactor has passed one more request of the connection to its handler
Received(rec) == [rec EXCEPT !.nOps = @ + 1]

\* WorldPostaLDAPServer.handle_LDAPBindRequest comes to its end: the BindResponse
\* and the flag
BindDone(rec, outcome, response) ==
    [Reply(rec, "bind", response.code, response.msg) EXCEPT
        !.pc = "idle", !.dn = << >>, !.reason = "",
        !.first_bind_done = FlagAfterBind(@, outcome)]

\* WorldPostaLDAPServer.handle_LDAPBindRequest: anonymous bind, exemption check,
\* and entry into one of the two paths.  Reading exempt_primary_bind from a
\* configuration that does not declare it raises AttributeError outside every
\* try block; the exception leaves the handler and the ldaptor dispatcher answers
\* with its own error response (resultCode other).
handle_LDAPBindRequest(c, dn, pw) ==
    /\ Deliver(c)
    /\ LET rec == [Received(conn[c]) EXCEPT !.dn = dn, !.nBinds = @ + 1]
           ex == is_exempt_from_2fa(config, conn[c].first_bind_done, dn)
       IN  IF IsAnonymous(dn, pw)
           THEN /\ conn' = [conn EXCEPT ![c] =
                              BindDone(rec, "anonymous", [code |-> 0, msg |-> << >>])]
                /\ UNCHANGED <<task, running>>
           ELSE IF ~config.declared
           THEN /\ conn' = [conn EXCEPT ![c] =
                              BindDone(rec, "escaped",
                                       [code |-> 80, msg |-> <<"AttributeError">>])]
                /\ UNCHANGED <<task, running>>
           ELSE IF ex[1]
           THEN /\ conn' = [conn EXCEPT ![c] =
                              [rec EXCEPT !.pc = "exempt_bind", !.reason = ex[2],
                                          !.nExempt = IF ex[2] = "exempt_primary_bind"
                                                      THEN @ + 1 ELSE @]]
                /\ UNCHANGED <<task, running>>
           ELSE /\ conn' = [conn EXCEPT ![c] =
                              [rec EXCEPT !.pc = "engine", !.auth_engine = TRUE]]
                /\ task' = [task EXCEPT ![1] =
                              [NewTask EXCEPT !.pc = "authenticate", !.caller = "ldap",
                                              !.password = pw, !.mode = "auto"]]
                /\ running' = 1
    /\ UNCHANGED <<pending, sent, config, proxy>>

\* a directory operation of the given kind is issued for the connection
Directory(rec, kind) == [rec EXCEPT !.dir = @ \cup {kind}]

\* WorldPostaLDAPServer.handle_LDAPBindRequest, exempt path: the ldap3 bind with the
\* supplied DN and password returns True, returns False or raises; without a
\* directory profile self.ad_config.host raises before anything is sent
ExemptBind(c, answer) ==
    /\ conn[c].pc = "exempt_bind"
    /\ config.ad \/ answer = "exception"
    /\ conn' = [conn EXCEPT ![c] =
                  BindDone(IF config.ad THEN Directory(conn[c], "bind") ELSE conn[c],
                           answer, ExemptResult(answer))]
    /\ UNCHANGED <<task, pending, running, sent, config, proxy>>

\* WorldPostaLDAPServer.handle_LDAPBindRequest, 2FA path: loop.close() in the finally
\* clause; the clocks of the call are gone with its event loop
LoopClosed(rec) ==
    [rec EXCEPT !.pc = "returned", !.timer = 0, !.elapsed = 0, !.age = 0]

\* WorldPostaLDAPServer.handle_LDAPBindRequest, 2FA path: run_until_complete returns
\* the verdict of AuthEngine.authenticate
BindAuthenticated(c) ==
    /\ conn[c].pc = "engine"
    /\ running = 1
    /\ task[1].pc = "engine_return"
    /\ task[1].caller = "ldap"
    /\ conn' = [conn EXCEPT ![c] =
                  BindDone(conn[c], "verdict", BindResult(task[1].result, task[1].message))]
    /\ Set(1, LoopClosed(task[1]))
    /\ running' = 0
    /\ UNCHANGED <<pending, sent, config, proxy>>

\* WorldPostaLDAPServer.handle_LDAPBindRequest, 2FA path: the except clause.  The
\* cloud answers with a JSON body that is no object, data.get raises in the
\* client and the exception comes out of run_until_complete.
BindRaised(c) ==
    /\ conn[c].pc = "engine"
    /\ running = 0
    /\ InHttp(task[1])
    /\ conn' = [conn EXCEPT ![c] =
                  BindDone(conn[c], "raised", [code |-> 1, msg |-> <<"exception">>])]
    /\ Set(1, [LoopClosed(task[1]) EXCEPT !.fault = "exception"])
    /\ UNCHANGED <<pending, running, sent, config, proxy>>

\* what the proxied search of the directory gives: the bind or the search raises
\* (SearchFailure), or the entries found, each of which can be converted ("ok")
\* or raises while it is converted ("bad")
SearchFailure == <<"raise">>
SearchAnswers == {SearchFailure, << >>, <<"ok">>, <<"bad", "ok">>, <<"ok", "bad">>}

\* a SEARCH closed as soon as the directory has answered, before its entries are
\* looked at
SearchDoneFirst(rec, entries) == Reply(rec, "search_done", 0, << >>)

\* WorldPostaLDAPServer.handle_LDAPSearchRequest, "for entry in conn.entries": one
\* SearchResultEntry for every entry that converts; an entry that raises is
\* logged and skipped
RECURSIVE SearchEntries(_, _)
SearchEntries(rec, entries) ==
    IF entries = << >> THEN rec
    ELSE SearchEntries(IF Head(entries) = "ok"
                       THEN Reply(rec, "search_entry", 0, << >>) ELSE rec,
                       Tail(entries))

\* a SEARCH that is refused on a connection without a completed BIND
handle_LDAPSearchRequestBound(c, answer) ==
    /\ Deliver(c)
    /\ config.ad \/ answer = SearchFailure
    /\ LET rec == IF config.ad /\ conn[c].first_bind_done
                  THEN Directory(Received(conn[c]), "search")
                  ELSE Received(conn[c])
           got == IF config.ad /\ conn[c].first_bind_done /\ answer # SearchFailure
                  THEN SearchEntries(rec, answer) ELSE rec
       IN  conn' = [conn EXCEPT ![c] =
                      Reply(got, "search_done",
                            IF conn[c].first_bind_done THEN 0 ELSE 50, << >>)]
    /\ UNCHANGED <<task, pending, running, sent, config, proxy>>

\* WorldPostaLDAPServer.handle_LDAPSearchRequest: the entries of the directory, if
\* a directory profile is bound and the proxied search gave any, then
\* SearchResultDone
handle_LDAPSearchRequest(c, answer) ==
    /\ Deliver(c)
    /\ config.ad \/ answer = SearchFailure
    /\ LET rec == IF config.ad THEN Directory(Received(conn[c]), "search")
                  ELSE Received(conn[c])
           got == IF config.ad /\ answer # SearchFailure
                  THEN SearchEntries(rec, answer) ELSE rec
       IN  conn' = [conn EXCEPT ![c] = Reply(got, "search_done", 0, << >>)]
    /\ UNCHANGED <<task, pending, running, sent, config, proxy>>

\* a COMPARE that has the asserted value verified by the Auth Engine
handle_LDAPCompareRequestVerify(c, answer) ==
    /\ Deliver(c)
    /\ conn' = [conn EXCEPT ![c] =
                  [Received(conn[c]) EXCEPT !.pc = "engine", !.auth_engine = TRUE]]
    /\ task' = [task EXCEPT ![1] =
                  [NewTask EXCEPT !.pc = "authenticate", !.caller = "ldap",
                                  !.password = <<"p", "w">>, !.mode = "auto"]]
    /\ running' = 1
    /\ UNCHANGED <<pending, sent, config, proxy>>

\* WorldPostaLDAPServer.handle_LDAPCompareRequest: compareTrue or compareFalse as
\* the directory says; compareFalse when the proxied compare raises or no
\* directory profile is bound
handle_LDAPCompareRequest(c, answer) ==
    /\ Deliver(c)
    /\ config.ad \/ answer = "exception"
    /\ LET rec == IF config.ad THEN Directory(Received(conn[c]), "compare")
                  ELSE Received(conn[c])
       IN  conn' = [conn EXCEPT ![c] =
                      Reply(rec, "compare", IF answer = "true" THEN 6 ELSE 5, << >>)]
    /\ UNCHANGED <<task, pending, running, sent, config, proxy>>

\* WorldPostaLDAPServer.handle_LDAPExtendedRequest: Who Am I, StartTLS, any other
handle_LDAPExtendedRequest(c, oid) ==
    /\ Deliver(c)
    /\ conn' = [conn EXCEPT ![c] =
                  IF oid = "starttls"
                  THEN Reply(Received(conn[c]), "extended", 53,
                             <<"StartTLS not supported">>)
                  ELSE Reply(Received(conn[c]), "extended", 0, << >>)]
    /\ UNCHANGED <<task, pending, running, sent, config, proxy>>

\* WorldPostaLDAPServer._extract_username applied to the DN of the connection, as
\* handle_LDAPBindRequest does, and once more to its own result
ExtractUsername(c) ==
    /\ conn[c].nOps < 2
    /\ conn' = [conn EXCEPT ![c] =
                  [Received(conn[c]) EXCEPT !.dn = extract_username(conn[c].dn)]]
    /\ UNCHANGED <<task, pending, running, sent, config, proxy>>

\* WorldPostaLDAPServer.handle_LDAPSearchRequest, "Convert filter to string
\* properly": the filter of the request becomes the search_filter text
ConvertFilter(c) ==
    /\ conn[c].search_filter = None
    /\ conn' = [conn EXCEPT ![c] =
                  [Received(conn[c]) EXCEPT
                      !.search_filter = Some(convert_filter(conn[c].filter))]]
    /\ UNCHANGED <<task, pending, running, sent, config, proxy>>

\* WorldPostaLDAPServer.handle_LDAPUnbindRequest: nothing but a log line; unbound
\* remembers that the client has sent an UNBIND on the connection
handle_LDAPUnbindRequest(c) ==
    /\ Deliver(c)
    /\ conn' = [conn EXCEPT ![c] = [Received(conn[c]) EXCEPT !.unbound = TRUE]]
    /\ UNCHANGED <<task, pending, running, sent, config, proxy>>

\* WorldPostaLDAPServer.handle_LDAPAbandonRequest: nothing but a log line
handle_LDAPAbandonRequest(c) ==
    /\ Deliver(c)
    /\ conn' = [conn EXCEPT ![c] = Received(conn[c])]
    /\ UNCHANGED <<task, pending, running, sent, config, proxy>>

\* a write operation proxied to the directory like SEARCH and COMPARE
handle_LDAPWriteRequestProxy(c, op) ==
    /\ Deliver(c)
    /\ config.ad
    /\ conn' = [conn EXCEPT ![c] =
                  Reply(Directory(Received(conn[c]), op), op, 0, << >>)]
    /\ UNCHANGED <<task, pending, running, sent, config, proxy>>

\* WorldPostaLDAPServer.handle_LDAPModifyRequest, handle_LDAPAddRequest,
\* handle_LDAPDelRequest, handle_LDAPModifyDNRequest: unwilling to perform
handle_LDAPWriteRequest(c, op) ==
    /\ Deliver(c)
    /\ conn' = [conn EXCEPT ![c] =
                  Reply(Received(conn[c]), op, 53, <<"not supported by proxy">>)]
    /\ UNCHANGED <<task, pending, running, sent, config, proxy>>

(***************************************************************************)
(* Specifications                                                          *)
(***************************************************************************)
\* An environment: the datagrams the network delivers and the answers the
\* directory and the cloud service give.
FullEnv ==
    [ keys |-> Keys, kinds |-> DatagramKinds, passwords |-> RadiusPasswords,
      dir |-> DirectoryAnswers, send |-> SendAnswers, poll |-> PollAnswers,
      otp |-> OtpAnswers ]

\* The environment of the runs with several tasks: one answer of each kind the
\* handlers tell apart.
SmallEnv ==
    [ keys |-> Keys, kinds |-> {"access_request"},
      passwords |-> { <<"p", "w">> },
      dir |-> {"bound", "invalidCredentials"},
      send |-> {"requestId", "transport_error"},
      poll |-> {"approved", "denied", "pending"},
      otp |-> {"valid"} ]

EngineStep(h, env) ==
    \/ Authenticate(h)
    \/ Bind(h)
    \/ \E answer \in env.dir : Primary(h, answer)
    \/ Dispatch(h)
    \/ SendPushCall(h)
    \/ \E answer \in env.send : SendPushReturn(h, answer)
    \/ PollLoop(h)
    \/ \E answer \in env.poll : PollReturn(h, answer)
    \/ Wake(h)

OtpStep(h, env) ==
    \/ VerifyOtpCall(h)
    \/ \E answer \in env.otp : VerifyOtpReturn(h, answer)

RadiusStep(h, env) ==
    \/ \E k \in env.keys, kind \in env.kinds, pw \in env.passwords :
          ReceiveLoop(h, k, kind, pw)
    \/ HandlePacket(h)
    \/ CheckDuplicate(h)
    \/ MarkPending(h)
    \/ CreateResponse(h)
    \/ HandlerRaised(h)
    \/ ClearPending(h)
    \/ ProcessAndRespond(h)

\* the RADIUS server with its Auth Engine, several requests in flight
Next ==
    \/ \E h \in Handlers : RadiusStep(h, SmallEnv) \/ EngineStep(h, SmallEnv)
    \/ Tick

Spec == Init /\ [][Next]_vars

\* one RADIUS transaction, every datagram and every answer
NextOne ==
    \/ RadiusStep(1, FullEnv)
    \/ EngineStep(1, FullEnv)
    \/ OtpStep(1, FullEnv)
    \/ Tick

SpecOne == InitOne /\ [][NextOne]_vars

\* one RADIUS transaction and the shutdown of the proxy
NextStop ==
    \/ RadiusStep(1, FullEnv)
    \/ EngineStep(1, FullEnv)
    \/ OtpStep(1, FullEnv)
    \/ Tick
    \/ stop

SpecStop == InitOne /\ [][NextStop]_vars

\* one call of AuthEngine.authenticate
NextEngine ==
    \/ EngineStep(1, FullEnv)
    \/ OtpStep(1, FullEnv)
    \/ Returned(1)
    \/ Tick

SpecEngine == InitEngine /\ [][NextEngine]_vars

\* the event loop runs every task that can run, every HTTP exchange ends, time passes
FairEngine ==
    /\ SpecEngine
    /\ WF_vars(Tick)
    /\ WF_vars(EngineStep(1, FullEnv) \/ OtpStep(1, FullEnv) \/ Returned(1))

\* the answers of the directory and of the cloud in the runs of the LDAP server
LdapEnv ==
    [ keys |-> Keys, kinds |-> {"access_request"}, passwords |-> LdapPasswords,
      dir |-> {"bound", "invalidCredentials"},
      send |-> {"requestId", "transport_error"},
      poll |-> {"approved", "denied", "pending"},
      otp |-> {"valid", "invalid"} ]

LdapStep(c) ==
    \/ \E dn \in BindDns, pw \in LdapPasswords : handle_LDAPBindRequest(c, dn, pw)
    \/ \E answer \in {"bound", "refused", "exception"} : ExemptBind(c, answer)
    \/ BindAuthenticated(c)
    \/ BindRaised(c)
    \/ \E answer \in SearchAnswers : handle_LDAPSearchRequest(c, answer)
    \/ \E answer \in {"true", "false", "exception"} :
          handle_LDAPCompareRequest(c, answer)
    \/ \E oid \in {"whoami", "starttls", "other"} : handle_LDAPExtendedRequest(c, oid)
    \/ handle_LDAPUnbindRequest(c)
    \/ handle_LDAPAbandonRequest(c)
    \/ \E op \in {"modify", "add", "delete", "modifydn"} : handle_LDAPWriteRequest(c, op)

\* the LDAP server: the reactor handles one request at a time, a BIND of the 2FA
\* path runs AuthEngine.authenticate to its end inside the handler
NextLdap ==
    \/ \E c \in Conns : LdapStep(c)
    \/ EngineStep(1, LdapEnv)
    \/ OtpStep(1, LdapEnv)
    \/ Tick

SpecLdap == InitLdap /\ [][NextLdap]_vars

\* the username extraction on its own: every connection holds a bind DN
InitExtract ==
    /\ task = [h \in Handlers |-> NewTask]
    /\ pending = [k \in Keys |-> 0]
    /\ running = 0
    /\ sent = << >>
    /\ conn \in [Conns -> {[NewConn EXCEPT !.dn = d] : d \in ExtractDns}]
    /\ proxy = NewProxy
    /\ config = DefaultConfig

NextExtract == \E c \in Conns : ExtractUsername(c)

SpecExtract == InitExtract /\ [][NextExtract]_vars

\* the filter conversion on its own: every connection holds the filter of a SEARCH
InitFilter ==
    /\ task = [h \in Handlers |-> NewTask]
    /\ pending = [k \in Keys |-> 0]
    /\ running = 0
    /\ sent = << >>
    /\ conn \in [Conns -> {NewConn @@ [filter |-> f, search_filter |-> None] :
                               f \in Filters}]
    /\ proxy = NewProxy
    /\ config = DefaultConfig

NextFilter == \E c \in Conns : ConvertFilter(c)

SpecFilter == InitFilter /\ [][NextFilter]_vars

(***************************************************************************)
(* Properties                                                              *)
(***************************************************************************)
Replies(h) == {i \in DOMAIN sent : sent[i].task = h}
CloudCalls(h) == task[h].nSend + task[h].nPoll + task[h].nOtp
\* h is between its insert into the pending map and its remove
InFlight(h) ==
    task[h].pc \in {"authenticate", "primary", "binding", "dispatch", "send_push", "send_wait",
                    "poll_loop", "poll_wait", "sleeping", "verify_otp", "otp_wait",
                    "engine_return", "clear_pending"}
Finished(h) == task[h].pc \in {"done", "returned"}

\* C1 as stated: of the Access-Requests with one (source_ip, source_port, radius_id)
\* that arrive within the dedup window of one another, at most one is authenticated
\* and at most one is answered, also when the later copy comes after the reply.
C1_OncePerWindow ==
    \A h \in Handlers : \A g \in task[h].near :
        /\ task[h].nAuth + task[g].nAuth <= 1
        /\ Cardinality(Replies(h) \cup Replies(g)) <= 1

\* C1, amended: of the Access-Requests with one key whose handling begins while
\* an earlier copy holds the key in the pending map, only the holder is
\* authenticated and answered, and no two handlers of one key are in flight at once.
C1_OncePerPendingKey ==
    /\ \A h \in Handlers :
          task[h].seen # 0 =>
             /\ task[h].nAuth + task[task[h].seen].nAuth <= 1
             /\ Cardinality(Replies(h) \cup Replies(task[h].seen)) <= 1
    /\ \A h, g \in Handlers :
          (h # g /\ InFlight(h) /\ InFlight(g)) => task[h].key # task[g].key

\* a copy was dropped while the first copy waits for its push to be approved
C1_Witness ==
    \E h, g \in Handlers :
        /\ task[h].seen = g /\ task[h].pc = "done"
        /\ task[g].pc = "sleeping"

\* C2: an Access-Request handled while its key is in the pending map gets no reply,
\* calls nothing (no bind, no send_push, no poll, no verify_otp) and leaves the
\* pending map as it is; the copies of one request yield one send_push at most.
C2_DuplicateInert ==
    \A h \in Handlers :
        /\ task[h].seen # 0 =>
              /\ task[h].nAuth = 0 /\ task[h].nBind = 0 /\ CloudCalls(h) = 0
              /\ Replies(h) = {}
              /\ pending[task[h].key] # h
        /\ task[h].nSend <= 1

C2_DuplicateStep ==
    \A h \in Handlers :
        (running = h /\ task[h].pc = "check_duplicate" /\ pending[task[h].key] # 0)
           => (pending' = pending /\ sent' = sent /\ task'[h].pc = "respond")

C3_PrimaryBeforeSecondFactor ==
    \A h \in Handlers :
        /\ CloudCalls(h) > 0 => task[h].primary = Some(TRUE)
        /\ task[h].primary = Some(FALSE) =>
              /\ task[h].pc \in {"engine_return", "returned"}
              /\ task[h].result = "primary_failed"
              /\ CloudCalls(h) = 0

C3_Witness ==
    task[1].pc = "returned" /\ task[1].primary = Some(FALSE) /\ task[1].nBind = 1

\* the second factor of h succeeded: a poll came back approved, or the code was valid
SecondFactorOk(h) == task[h].wait = "approved" \/ task[h].otp = "valid"

\* C4: whatever fail_open is, no Access-Accept goes to a request whose primary
\* bind failed or whose push was denied; with fail_open off an Access-Accept is
\* sent only after primary authentication and the second factor both succeeded,
\* and a second factor that ended in a cloud fault is answered with Access-Reject.
C4_AcceptOnlyAfterBothFactors ==
    \A i \in DOMAIN sent :
        LET h == sent[i].task IN
        /\ sent[i].code = "Access-Accept" =>
              /\ task[h].primary = Some(TRUE)
              /\ task[h].wait # "denied"
              /\ ~config.fail_open => SecondFactorOk(h)
        /\ (~config.fail_open /\ task[h].fault # "none" /\ ~SecondFactorOk(h)) =>
              sent[i].code = "Access-Reject"

\* fail_open is set, the push was denied, the request was rejected
C4_Witness ==
    /\ config.fail_open
    /\ task[1].wait = "denied"
    /\ Len(sent) = 1 /\ sent[1].code = "Access-Reject"

\* the cloud service was unreachable for h: send_push, every poll, or verify_otp
\* ended in a transport error or a timeout
Unreachable(h) ==
    /\ task[h].fault \in {"transport_error", "timeout"}
    /\ \/ task[h].nSend = 1 /\ task[h].request_id = None
       \/ task[h].nOtp = 1 /\ task[h].otp \in Faults
       \/ task[h].wait = "expired" /\ task[h].last = "error"

\* C5 as stated: with fail_open set, a request whose primary bind succeeded while
\* the cloud service is unreachable is answered with Access-Accept.
C5_FailOpenAccepts ==
    \A i \in DOMAIN sent :
        (config.fail_open /\ task[sent[i].task].primary = Some(TRUE)
           /\ task[sent[i].task].nBind = 1 /\ Unreachable(sent[i].task))
        => sent[i].code = "Access-Accept"

\* C6 as stated: the push flow gives push_failed when send_push fails (and then
\* polls nothing), success when approved, push_denied when denied, push_timeout
\* when expired; a denied push is rejected with a Reply-Message naming push_denied.
C6_PushVerdicts ==
    /\ \A h \in Handlers :
          (task[h].nSend = 1 /\ task[h].nVerdict = 1) =>
             /\ task[h].request_id = None =>
                   (task[h].result = "push_failed" /\ task[h].nPoll = 0)
             /\ task[h].wait = "approved" => task[h].result = "success"
             /\ task[h].wait = "denied" => task[h].result = "push_denied"
             /\ task[h].wait = "expired" => task[h].result = "push_timeout"
    /\ \A i \in DOMAIN sent :
          task[sent[i].task].wait = "denied" =>
             (sent[i].code = "Access-Reject" /\ "push_denied" \in Range(sent[i].msg))

\* C7: in wait_for_push a poll that returns error or pending never ends the wait
\* and never becomes the verdict; when the last poll says approved the engine
\* returns success, whatever errors came before; a push gets one outcome at most.
C7_Invariant ==
    \A h \in Handlers :
        /\ task[h].nVerdict <= 1
        /\ (task[h].nVerdict = 1 /\ task[h].last = "approved") =>
              (task[h].wait = "approved" /\ task[h].result = "success")
        /\ task[h].wait \notin {"error", "pending"}

C7_Step ==
    \A h \in Handlers :
        (task[h].pc = "poll_wait" /\ task'[h].pc # "poll_wait"
           /\ task'[h].last \in {"error", "pending"})
        => (task'[h].pc = "sleeping" /\ task'[h].nVerdict = 0 /\ task'[h].result = "none")

C7_TransientPollsRetried == []C7_Invariant /\ [][C7_Step]_vars

\* a poll failed, a later poll said approved, the verdict is success
C7_Witness ==
    /\ task[1].pc = "returned" /\ task[1].retried
    /\ task[1].last = "approved" /\ task[1].result = "success"

\* C8: wait_for_push always returns, and returns approved, denied or expired; when
\* no poll gave one of these it returns expired at the deadline, and the engine
\* verdict is then push_timeout.
C8_Outcome ==
    \A h \in Handlers :
        /\ task[h].wait \in {"none", "approved", "denied", "expired"}
        /\ (task[h].nVerdict = 1 /\ task[h].request_id # None
              /\ task[h].last \notin {"approved", "denied", "expired"})
           => (task[h].wait = "expired" /\ task[h].result = "push_timeout")
        /\ task[h].wait = "expired" => task[h].result = "push_timeout"

C9_ElapsedBound ==
    \A h \in Handlers :
        (task[h].pc = "returned" /\ task[h].nSend = 1 /\ task[h].nBind = 0)
        => task[h].age <= PushTimeout + PollInterval

\* C10 as stated: after a successful primary bind the push flow starts iff the
\* factor is "push" in any case, or there is no factor and the mode is auto or
\* push; no factor in mode otp gives "OTP code required"; every other combination
\* that is no OTP code gives the error verdict without a cloud call.  (An empty
\* factor, as in "pw,", is read as no factor.)
C10_FactorDispatch ==
    \A h \in Handlers :
        (task[h].pc = "returned" /\ task[h].primary = Some(TRUE)) =>
           LET f == task[h].factor
               m == task[h].mode
               noFactor == f = None \/ f = Some(<< >>)
               pushWanted == \/ ~noFactor /\ lower(f[1]) = PUSH
                             \/ noFactor /\ m \in {"auto", "push"}
               otpWanted == ~noFactor /\ isdigit(f[1]) /\ Len(f[1]) >= 6
           IN  /\ task[h].nSend = 1 <=> pushWanted
               /\ (noFactor /\ m = "otp") =>
                     (task[h].result = "error" /\ task[h].message = <<"OTP code required">>)
               /\ (~pushWanted /\ ~otpWanted) =>
                     (task[h].result = "error" /\ CloudCalls(h) = 0)

\* C11: after a successful primary bind a non-empty factor goes to verify_otp iff
\* it is all digits and at least 6 long; a non-empty factor that is neither that
\* nor "push" gives the error verdict without verify_otp and without send_push.
C11_OtpFactor ==
    \A h \in Handlers :
        (task[h].pc = "returned" /\ task[h].primary = Some(TRUE)
           /\ task[h].factor # None /\ task[h].factor # Some(<< >>)) =>
           LET f == task[h].factor[1]
               code == Range(f) \subseteq Digits /\ Len(f) >= 6
           IN  /\ task[h].nOtp = 1 <=> code
               /\ task[h].nOtp <= 1
               /\ (~code /\ lower(f) # PUSH) =>
                     /\ task[h].result = "error"
                     /\ task[h].nOtp = 0 /\ task[h].nSend = 0

\* a factor of exactly six digits was verified, and one of five digits was refused
C11_Witness ==
    /\ task[1].pc = "returned" /\ task[1].primary = Some(TRUE)
    /\ task[1].factor = Some(<<"1", "2", "3", "4", "5", "6">>)
    /\ task[1].nOtp = 1 /\ task[1].result = "success"

\* C12: _parse_password splits at the last comma only: for a password with a comma
\* real_password + "," + factor is the password and the factor holds no comma; for
\* a password without a comma the result is (password, None).
C12_ParseLastComma ==
    \A h \in Handlers :
        (task[h].caller = "direct" /\ task[h].pc # "authenticate") =>
           IF "," \in Range(task[h].password)
           THEN /\ task[h].factor # None
                /\ task[h].real_password \o <<",">> \o task[h].factor[1] = task[h].password
                /\ "," \notin Range(task[h].factor[1])
           ELSE /\ task[h].factor = None
                /\ task[h].real_password = task[h].password

\* "a,b,push" was parsed into ("a,b", "push")
C12_Witness ==
    /\ task[1].pc # "authenticate"
    /\ task[1].password = <<"a", ",", "b", ",", "p", "u", "s", "h">>
    /\ task[1].real_password = <<"a", ",", "b">>
    /\ task[1].factor = Some(PUSH)

\* C13: every reply follows from the verdict of its own request: success gives
\* Access-Accept "Authentication successful", any other verdict Access-Reject with
\* the engine message; the reply carries the identifier of the request and goes to
\* the source address of the request.
C13_ReplyFollowsVerdict ==
    \A i \in DOMAIN sent :
        LET t == task[sent[i].task]
        IN  /\ t.result \in AuthResults
            /\ t.result = "success" =>
                  (sent[i].code = "Access-Accept"
                     /\ sent[i].msg = <<"Authentication successful">>)
            /\ t.result # "success" =>
                  (sent[i].code = "Access-Reject" /\ sent[i].msg = t.message)
            /\ sent[i].to = t.key

\* two requests with different identifiers, one accepted and one rejected
C13_Witness ==
    \E i, j \in DOMAIN sent :
        /\ sent[i].code = "Access-Accept" /\ sent[j].code = "Access-Reject"
        /\ sent[i].to # sent[j].to
        /\ task[sent[j].task].nSend = 1

\* C14: in one RADIUS transaction the order is dedup-insert, primary bind, second
\* factor, dedup-remove, reply: the key is pending during the whole engine call, the
\* second factor starts after the bind, the verdict is there before the key is
\* removed unless the engine raised, and the reply is sent once, after the removal and after a started
\* second factor has returned.
C14_Order ==
    \A h \in Handlers :
        task[h].caller = "radius" =>
           /\ InFlight(h) => pending[task[h].key] = h
           /\ CloudCalls(h) > 0 => (task[h].primary = Some(TRUE) /\ task[h].nAuth = 1)
           /\ (/\ task[h].pc \in {"clear_pending", "respond", "done"}
               /\ task[h].nAuth = 1
               /\ task[h].fault # "exception")
                 => task[h].result \in AuthResults
           /\ Cardinality(Replies(h)) <= 1
           /\ Replies(h) # {} =>
                 /\ task[h].pc = "done"
                 /\ pending[task[h].key] # h
                 /\ CloudCalls(h) > 0 => task[h].nVerdict = 1

C14_SendStep ==
    sent' # sent =>
       LET h == sent'[Len(sent')].task
       IN  /\ pending[task[h].key] = 0
           /\ task[h].pc = "respond"
           /\ ~InFlight(h)

C14_TransactionOrder == []C14_Order /\ [][C14_SendStep]_vars

\* a reply after a bind, a push that was polled, and the removal of the key
C14_Witness ==
    /\ Len(sent) = 1 /\ sent[1].task = 1
    /\ task[1].nBind = 1 /\ task[1].nSend = 1 /\ task[1].nPoll >= 1
    /\ pending[task[1].key] = 0

\* C15: a datagram from an unknown client, a datagram that does not decode and a
\* packet with a code other than Access-Request get no reply, no engine call and
\* no entry in the pending map.
C15_Dropped ==
    \A h \in Handlers :
        task[h].kind \in {"unknown_client", "malformed", "other_code"} =>
           /\ Replies(h) = {}
           /\ task[h].nAuth = 0 /\ task[h].nBind = 0 /\ CloudCalls(h) = 0
           /\ task[h].primary = None /\ task[h].result = "none"
           /\ \A k \in Keys : pending[k] # h
           /\ task[h].pc \in {"created", "respond", "done"}

\* a datagram of an unknown client has been handled to its end
C15_Witness ==
    /\ task[1].pc = "done" /\ task[1].kind = "unknown_client"
    /\ sent = << >>

\* C16 as stated: the listener never blocks on authentication: while a request is
\* in a latency-bearing step (directory bind, send_push, waiting for the push) the
\* event loop is not held by that request, so a datagram of another source can be
\* received, authenticated and answered meanwhile.
C16_ListenerNeverBlocked ==
    \A h \in Handlers :
        task[h].pc \in {"binding", "send_wait", "poll_wait", "sleeping"} => running # h

\* the BindResponses written on connection c
BindResponses(c) == {i \in DOMAIN conn[c].out : conn[c].out[i].op = "bind"}

\* C17: on every LDAP connection first_bind_done starts false and never goes back
\* from true to false, whatever requests follow.
C17_Start == \A c \in Conns : conn[c].nOps = 0 => ~conn[c].first_bind_done

C17_Step == \A c \in Conns : conn[c].first_bind_done => conn'[c].first_bind_done

C17_FirstBindMonotone == []C17_Start /\ [][C17_Step]_vars

\* the flag is set, and a later BIND on the connection was refused or failed
C17_Witness ==
    \E c \in Conns :
        /\ conn[c].first_bind_done /\ conn[c].pc = "idle"
        /\ conn[c].nOps = MaxOps /\ conn[c].nBinds >= 2
        /\ conn[c].out[Len(conn[c].out)].op = "bind"
        /\ conn[c].out[Len(conn[c].out)].code \in {1, 49}

\* C18 as stated: once a BIND has been answered with resultCode 0, 49 or 1 - the
\* anonymous bind and the binds that ended in an exception included -
\* first_bind_done is true.
C18_FlagAfterAnyBind ==
    \A c \in Conns :
        (\E i \in BindResponses(c) : conn[c].out[i].code \in {0, 1, 49})
        => conn[c].first_bind_done

\* C19 as stated: with exempt_primary_bind set, one bind of a connection is exempted
\* by that rule, whatever its outcome was; a later bind skips the Auth Engine only
\* when its DN is the service account or in the exempt list.
C19_OneExemptBind ==
    \A c \in Conns :
        (config.exempt_primary_bind /\ conn[c].pc = "exempt_bind" /\ conn[c].nExempt >= 2)
        => is_exempt_from_2fa(config, TRUE, conn[c].dn)[1]

\* C20: a BIND that is neither anonymous nor exempt is answered with resultCode 0
\* iff the engine verdict is success, any other verdict gives 49 with the engine
\* message; a BIND gets exactly one BindResponse.
C20_OneResponse ==
    \A c \in Conns :
        Cardinality(BindResponses(c))
           = conn[c].nBinds - (IF conn[c].pc = "idle" THEN 0 ELSE 1)

C20_Step ==
    \A c \in Conns :
        (conn[c].pc = "engine" /\ conn'[c].pc = "idle") =>
           LET r == conn'[c].out[Len(conn'[c].out)]
           IN  /\ Len(conn'[c].out) = Len(conn[c].out) + 1
               /\ r.op = "bind"
               /\ IF task'[1].fault = "exception"
                  THEN r.code = 1
                  ELSE /\ task[1].result \in AuthResults
                       /\ r.code = 0 <=> task[1].result = "success"
                       /\ task[1].result # "success" =>
                             (r.code = 49 /\ r.msg = task[1].message)

C20_BindFollowsVerdict == []C20_OneResponse /\ [][C20_Step]_vars

\* a BIND of the 2FA path whose push was not approved was answered with 49 and the
\* engine message
C20_Witness ==
    /\ conn[1].pc = "idle" /\ conn[1].nOps = 1
    /\ task[1].caller = "ldap" /\ task[1].pc = "returned"
    /\ task[1].result = "push_timeout" /\ task[1].nPoll >= 1
    /\ conn[1].out = << [op |-> "bind", code |-> 49, msg |-> task[1].message] >>


\* C21: a BIND whose DN is empty or whose credentials are empty is answered in the
\* same step with resultCode 0 and nothing else: the handler enters neither the
\* directory bind of the exempt path nor the Auth Engine, no directory operation
\* is issued, no engine is created and the engine task with its cloud calls is
\* left as it was.
C21_AnonymousBind ==
    [][\A c \in Conns :
          conn'[c].nBinds # conn[c].nBinds =>
          \A dn \in BindDns, pw \in LdapPasswords :
          ((dn = << >> \/ pw = << >>) /\ handle_LDAPBindRequest(c, dn, pw)) =>
             /\ conn'[c].pc = "idle"
             /\ conn'[c].out =
                   Append(conn[c].out, [op |-> "bind", code |-> 0, msg |-> << >>])
             /\ conn'[c].dir = conn[c].dir
             /\ conn'[c].auth_engine = conn[c].auth_engine
             /\ task' = task
             /\ running' = running]_vars

\* a bind answered with resultCode 0 on a connection that never ran a directory
\* bind or the engine: no other path answers 0 and leaves the flag false
C21_Witness ==
    \E c \in Conns :
        /\ conn[c].nBinds = 1
        /\ conn[c].out = <<[op |-> "bind", code |-> 0, msg |-> << >>]>>
        /\ ~conn[c].first_bind_done
        /\ conn[c].dir = {}
        /\ ~conn[c].auth_engine
        /\ CloudCalls(1) = 0


\* C22: only a BIND invokes the Auth Engine.  A step that handles a request other
\* than a BIND (SEARCH, COMPARE, EXTENDED, UNBIND, ABANDON, MODIFY, ADD, DELETE,
\* MODIFYDN) returns in the same step, creates no engine and leaves the engine
\* task with its counts of send_push, poll_status and verify_totp as it was; and
\* every step that issues a cloud call is taken while the handler of a BIND is
\* inside the engine.
C22_OnlyBindInvokesEngine ==
    [][/\ \A c \in Conns :
            (conn'[c].nOps # conn[c].nOps /\ conn'[c].nBinds = conn[c].nBinds) =>
               /\ conn'[c].pc = "idle"
               /\ conn'[c].auth_engine = conn[c].auth_engine
               /\ task' = task
               /\ running' = running
       /\ CloudCalls(1)' > CloudCalls(1) =>
            \E c \in Conns :
               /\ conn[c].pc = "engine"
               /\ conn[c].nBinds > Cardinality(BindResponses(c))]_vars

\* one connection has had a SEARCH, a COMPARE and an UNBIND handled, both proxied
\* to the directory, and no cloud call was ever made
C22_Witness ==
    \E c \in Conns :
        /\ conn[c].nOps = 3
        /\ conn[c].nBinds = 0
        /\ conn[c].dir = {"search", "compare"}
        /\ conn[c].unbound
        /\ task[1].pc = "unused"
        /\ CloudCalls(1) = 0


\* the last response written to connection c in the next state
LastOut(c) == conn'[c].out[Len(conn'[c].out)]

\* C23: an exempt bind makes no cloud call and its result is that of the plain
\* directory bind with the supplied DN and password: resultCode 0 when the
\* directory accepts, 49 when it refuses.  A bind that is not exempt invokes the
\* Auth Engine in mode auto and is answered with resultCode 0 only after a push
\* was approved or an OTP was verified.
C23_ExemptIdle ==
    \A c \in Conns : conn[c].pc = "exempt_bind" => (running = 0 /\ ~InFlight(1))

C23_Step ==
    \A c \in Conns :
        /\ conn'[c].pc = "exempt_bind" => (task' = task /\ running' = running)
        /\ (conn[c].pc = "exempt_bind" /\ conn'[c].pc = "idle") =>
              /\ task' = task
              /\ running' = running
              /\ conn'[c].auth_engine = conn[c].auth_engine
              /\ ExemptBind(c, "bound") => (LastOut(c).op = "bind" /\ LastOut(c).code = 0)
              /\ ExemptBind(c, "refused") =>
                    (LastOut(c).op = "bind" /\ LastOut(c).code = 49)
              /\ LastOut(c).code = 0 => "bind" \in conn'[c].dir
        /\ (conn[c].pc = "idle" /\ conn'[c].pc = "engine") =>
              /\ task'[1].pc = "authenticate"
              /\ task'[1].mode = "auto"
              /\ CloudCalls(1)' = 0
        /\ (conn[c].pc = "engine" /\ conn'[c].pc = "idle" /\ LastOut(c).code = 0) =>
              \/ task[1].wait = "approved" /\ task[1].nSend = 1 /\ task[1].nPoll >= 1
              \/ task[1].otp = "valid" /\ task[1].nOtp = 1

C23_ExemptOrEngine == []C23_ExemptIdle /\ [][C23_Step]_vars

\* both paths were taken on one connection: an exempt bind the directory refused
\* (49, no cloud call), then a bind whose OTP the cloud verified (0)
C23_Witness ==
    \E c \in Conns :
        /\ conn[c].pc = "idle"
        /\ conn[c].nBinds = 2
        /\ Len(conn[c].out) = 2
        /\ conn[c].out[1].code = 49
        /\ conn[c].out[2].code = 0
        /\ conn[c].dir = {"bind"}
        /\ task[1].otp = "valid"
        /\ task[1].nSend = 0


\* the three conditions of the exemption, as the specification words them
ExemptFirstBind(c) == config.exempt_primary_bind /\ ~conn[c].first_bind_done

ExemptServiceAccount(dn) ==
    /\ config.ad
    /\ \/ lower(dn) = lower(ServiceDn)
       \/ /\ HasAt(dn) /\ HasAt(ServiceDn)
          /\ lower(BeforeAt(dn)) = lower(BeforeAt(ServiceDn))

ExemptListed(dn) ==
    config.declared /\ \E e \in ExemptOus :
        \/ lower(dn) = lower(e)
        \/ HasAt(dn) /\ HasAt(e) /\ lower(BeforeAt(dn)) = lower(BeforeAt(e))
        \/ EndsWith(lower(dn), <<",">> \o lower(e))

\* C24: a BIND that is not anonymous is treated as exempt exactly when
\* exempt_primary_bind is set and first_bind_done is false, or the DN is the
\* service DN of the directory profile (case-insensitively, or both UPNs with
\* equal local parts), or the DN equals, has the UPN local part of, or ends with
\* "," + an entry of the exempt list.
C24_ExemptExactly ==
    [][\A c \in Conns :
          conn'[c].nBinds # conn[c].nBinds =>
          \A dn \in BindDns \ { << >> }, pw \in LdapPasswords \ { << >> } :
              handle_LDAPBindRequest(c, dn, pw) =>
                 (conn'[c].pc = "exempt_bind"
                     <=> (ExemptFirstBind(c) \/ ExemptServiceAccount(dn)
                             \/ ExemptListed(dn)))]_vars

\* the entries of a directory answer that can be converted
RECURSIVE Convertible(_)
Convertible(entries) ==
    IF entries = << >> THEN 0
    ELSE (IF Head(entries) = "ok" THEN 1 ELSE 0) + Convertible(Tail(entries))

\* C25: every SEARCH is closed by exactly one SearchResultDone with resultCode 0,
\* written after all its SearchResultEntry: the responses of a SEARCH are one
\* entry for each directory entry that converts, then the SearchResultDone and
\* nothing after it, and no entry at all when the back-end bind or search fails or
\* no directory profile is bound.
C25_Step ==
    \A c \in Conns :
        (conn'[c].nOps # conn[c].nOps /\ conn'[c].nBinds = conn[c].nBinds) =>
        \A answer \in SearchAnswers :
            handle_LDAPSearchRequest(c, answer) =>
               LET old == Len(conn[c].out)
                   new == Len(conn'[c].out)
                   n == IF config.ad /\ answer # SearchFailure
                        THEN Convertible(answer) ELSE 0
               IN  /\ new = old + n + 1
                   /\ SubSeq(conn'[c].out, 1, old) = conn[c].out
                   /\ \A i \in (old + 1)..(new - 1) : conn'[c].out[i].op = "search_entry"
                   /\ conn'[c].out[new] = [op |-> "search_done", code |-> 0, msg |-> << >>]
                   /\ conn'[c].pc = "idle"

\* the responses of a connection never end in a SearchResultEntry, and every
\* SearchResultDone carries resultCode 0
C25_Closed ==
    \A c \in Conns :
        /\ conn[c].out # << >> => conn[c].out[Len(conn[c].out)].op # "search_entry"
        /\ \A i \in DOMAIN conn[c].out :
              conn[c].out[i].op = "search_done" => conn[c].out[i].code = 0

C25_SearchDone == []C25_Closed /\ [][C25_Step]_vars

\* two searches on one connection, the first with an entry, the second with none
C25_Witness ==
    \E c \in Conns :
        /\ conn[c].nOps = 2
        /\ conn[c].dir = {"search"}
        /\ Len(conn[c].out) = 3
        /\ conn[c].out[1].op = "search_entry"
        /\ conn[c].out[2].op = "search_done"
        /\ conn[c].out[3].op = "search_done"


WriteOps == {"modify", "add", "delete", "modifydn"}

\* C26: MODIFY, ADD, DELETE and MODIFYDN are each answered with one response of
\* resultCode 53 (unwillingToPerform); the step issues no directory operation and
\* leaves first_bind_done, the engine handle and the engine task of the
\* connection as they were.
C26_Step ==
    \A c \in Conns :
        (conn'[c].nOps # conn[c].nOps /\ conn'[c].nBinds = conn[c].nBinds) =>
        \A op \in WriteOps :
            handle_LDAPWriteRequest(c, op) =>
               /\ Len(conn'[c].out) = Len(conn[c].out) + 1
               /\ LastOut(c).op = op
               /\ LastOut(c).code = 53
               /\ conn'[c].dir = conn[c].dir
               /\ conn'[c].first_bind_done = conn[c].first_bind_done
               /\ conn'[c].auth_engine = conn[c].auth_engine
               /\ conn'[c].pc = "idle"
               /\ task' = task

\* no write operation is ever among the directory operations of a connection
C26_NoWrite == \A c \in Conns : conn[c].dir \cap WriteOps = {}

C26_WritesRefused == []C26_NoWrite /\ [][C26_Step]_vars

\* a MODIFY answered with 53 on a connection that holds an engine and has its
\* flag set from a bind of the 2FA path
C26_Witness ==
    \E c \in Conns :
        /\ conn[c].nOps = 2
        /\ conn[c].first_bind_done
        /\ conn[c].auth_engine
        /\ Len(conn[c].out) = 2
        /\ conn[c].out[1].op = "bind"
        /\ conn[c].out[2].op = "modify"
        /\ conn[c].out[2].code = 53
        /\ conn[c].dir = {}


\* C27: UNBIND and ABANDON produce no response, and UNBIND ends the connection:
\* once an UNBIND has been handled on a connection no later request on it is
\* handled or answered.
C27_Step ==
    \A c \in Conns :
        conn'[c].nOps # conn[c].nOps =>
           /\ (handle_LDAPUnbindRequest(c) \/ handle_LDAPAbandonRequest(c)) =>
                 conn'[c].out = conn[c].out
           /\ ~conn[c].unbound
           /\ conn[c].unbound => conn'[c].out = conn[c].out

C27_UnbindEndsConnection == [][C27_Step]_vars


\* C28: within one connection the requests are handled one at a time: a request
\* is handed to its handler only when the handler of the request before it has
\* returned, so every earlier BIND of the connection has its response written
\* before a later request is handled, also when the BIND waits for a push
\* approval; while a BIND is being handled nothing else is written to the
\* connection.
C28_Step ==
    \A c \in Conns :
        /\ conn'[c].nOps # conn[c].nOps =>
              /\ conn'[c].nOps = conn[c].nOps + 1
              /\ conn[c].pc = "idle"
              /\ Cardinality(BindResponses(c)) = conn[c].nBinds
        /\ (conn[c].pc # "idle" /\ conn'[c].pc # "idle") =>
              (conn'[c].out = conn[c].out /\ conn'[c].nOps = conn[c].nOps)
        /\ (conn[c].pc # "idle" /\ conn'[c].pc = "idle") =>
              /\ Len(conn'[c].out) = Len(conn[c].out) + 1
              /\ LastOut(c).op = "bind"
              /\ conn'[c].nOps = conn[c].nOps

C28_OneAtATime == [][C28_Step]_vars

\* a BIND that waited through a pending poll was answered, and the SEARCH that
\* followed it on the connection was answered after it
C28_Witness ==
    \E c \in Conns :
        /\ conn[c].nOps = 2
        /\ conn[c].nBinds = 1
        /\ task[1].caller = "ldap"
        /\ task[1].nPoll >= 2
        /\ Len(conn[c].out) = 2
        /\ conn[c].out[1].op = "bind"
        /\ conn[c].out[2].op = "search_done"


\* C29: the LDAP front end is concurrent per connection: while a BIND on one
\* connection waits for the directory bind or for a push approval, a request on
\* another connection can be handled and answered.
C29_OtherConnectionsServed ==
    \A c \in Conns, d \in Conns :
        (/\ c # d
         /\ \/ conn[c].pc = "exempt_bind" /\ config.ad
            \/ conn[c].pc = "engine" /\ task[1].pc \in {"poll_wait", "sleeping"}
         /\ OpsHandled < MaxOps) =>
           ENABLED (\E answer \in SearchAnswers : handle_LDAPSearchRequest(d, answer))


\* part occurs in text as a run of consecutive characters
Occurs(part, text) ==
    \E i \in 1..(Len(text) - Len(part) + 1) :
        SubSeq(text, i, i + Len(part) - 1) = part

\* the non-empty parts of a password
Parts(pw) == {SubSeq(pw, a, b) : a \in 1..Len(pw), b \in 1..Len(pw)} \ { << >> }

\* C30: no password and no part of a password appears in a Reply-Message or in
\* the message the server logs with its verdict, whatever the password is, a
\* password with a comma followed by text that is neither "push" nor an OTP
\* included.
C30_NoPasswordDisclosed ==
    /\ \A i \in DOMAIN sent :
          \A part \in Parts(task[sent[i].task].password) : ~Occurs(part, sent[i].msg)
    /\ \A h \in Handlers :
          \A part \in Parts(task[h].password) : ~Occurs(part, task[h].message)


\* C31: once stop has been handled no new datagram is dispatched to a handler, no
\* further cloud request is issued, no reply is sent, and the HTTP session and
\* the socket are closed and stay closed; a second stop changes nothing.
C31_Step ==
    proxy.stops >= 1 =>
       /\ \A h \in Handlers : task[h].pc = "unused" => task'[h].pc = "unused"
       /\ CloudCalls(1)' = CloudCalls(1)
       /\ sent' = sent
       /\ proxy'.socket = "closed"
       /\ proxy'.session # "open"
       /\ ~proxy'.running
       /\ proxy'.stops # proxy.stops =>
             [proxy' EXCEPT !.stops = 0] = [proxy EXCEPT !.stops = 0]

C31_StoppedStaysStopped == [][C31_Step]_vars


\* C32: an exception raised inside a RADIUS handler suppresses the reply for the
\* packet and still removes its pending key: the handler sends nothing, the key
\* is out of the map once the finally clause has run, and a retransmission with
\* the same key that is checked afterwards is not dropped as a duplicate but
\* goes on to the insert and the engine.
C32_Raised ==
    \A h \in Handlers :
        task[h].fault = "exception" =>
           /\ Replies(h) = {}
           /\ task[h].pc \in {"clear_pending", "respond", "done"}
           /\ task[h].pc \in {"respond", "done"} => pending[task[h].key] # h

C32_Step ==
    \A h \in Handlers, g \in Handlers :
        (/\ task[h].fault = "exception"
         /\ task[h].pc \in {"respond", "done"}
         /\ task[g].key = task[h].key
         /\ task[g].pc = "check_duplicate"
         /\ task'[g].pc # "check_duplicate"
         /\ \A f \in Handlers \ {h, g} : ~InFlight(f)) =>
            /\ task'[g].pc = "mark_pending"
            /\ task'[g].seen = 0

C32_ExceptionClearsKey == []C32_Raised /\ [][C32_Step]_vars

\* the first handler raised and sent nothing; the retransmission with the same
\* key found no entry and reached the engine
C32_Witness ==
    /\ task[1].fault = "exception"
    /\ task[1].pc = "done"
    /\ Replies(1) = {}
    /\ task[2].key = task[1].key
    /\ task[2].seen = 0
    /\ task[2].nAuth = 1


\* C33: an internal exception while a BIND is handled, on the exempt path, on the
\* 2FA path or while the exemption predicate is evaluated, is answered with
\* exactly one BindResponse of resultCode 1, and the connection goes on.
C33_Step ==
    \A c \in Conns :
        LET one == /\ Len(conn'[c].out) = Len(conn[c].out) + 1
                   /\ LastOut(c).op = "bind"
                   /\ LastOut(c).code = 1
                   /\ conn'[c].pc = "idle"
        IN  /\ (conn[c].pc = "exempt_bind" /\ ExemptBind(c, "exception")) => one
            /\ (conn[c].pc = "engine" /\ BindRaised(c)) => one
            /\ (/\ conn'[c].nBinds # conn[c].nBinds
                /\ ~config.declared
                /\ \E dn \in BindDns \ { << >> }, pw \in LdapPasswords \ { << >> } :
                      handle_LDAPBindRequest(c, dn, pw)) => one

C33_BindExceptionAnswered == [][C33_Step]_vars


\* C34: the username extraction is idempotent: applied to its own result it gives
\* that result again, for every bind DN.
C34_ExtractIdempotent ==
    \A c \in Conns :
        conn[c].nOps = 1 => extract_username(conn[c].dn) = conn[c].dn


\* C35: the filter serialization is lossless: two different supported filters
\* never serialize to the same text.
C35_ConvertInjective ==
    \A c \in Conns, d \in Conns :
        (/\ conn[c].search_filter # None
         /\ conn[d].search_filter # None
         /\ conn[c].filter # conn[d].filter) =>
            conn[c].search_filter # conn[d].search_filter


\* C36: no entry stays in the pending map longer than the eviction age after its
\* insertion, also while its handler has not finished.  (The push wait of a
\* handler begins after its insert, so the time waited is time spent in the map.)
C36_EntriesEvicted ==
    \A k \in Keys : pending[k] # 0 => task[pending[k]].elapsed <= CleanupAge


\* C37: the duplicate check and the insert of one handler are not interleaved with
\* those of another handler for the same key: a handler that passed the check still
\* holds the event loop and finds the key absent when it inserts, and no two
\* handlers of one key are both past the check.
C37_PastCheck(h) == task[h].pc = "mark_pending" \/ InFlight(h)

C37_CheckInsertAtomic ==
    /\ \A h \in Handlers :
          task[h].pc = "mark_pending" => (running = h /\ pending[task[h].key] = 0)
    /\ \A h, g \in Handlers :
          (h # g /\ C37_PastCheck(h) /\ C37_PastCheck(g)) => task[h].key # task[g].key

\* a second handler of the key has just failed the check while the first is suspended
\* inside authenticate
C37_Witness ==
    \E h, g \in Handlers :
        /\ h # g /\ task[h].key = task[g].key
        /\ running = h /\ task[h].pc = "respond" /\ task[h].seen = g
        /\ task[g].pc \in {"send_wait", "poll_wait", "sleeping", "otp_wait"}


\* C38: the pending map holds exactly the keys of the handlers that are between
\* their insert and their remove, each under its own handler; every exit of a
\* handler (accept, reject, exception) removes its key, so the map is empty once
\* every handler has finished.
C38_PendingExact ==
    /\ \A k \in Keys :
          pending[k] # 0 => (InFlight(pending[k]) /\ task[pending[k]].key = k)
    /\ \A h \in Handlers : InFlight(h) => pending[task[h].key] = h
    /\ \A h \in Handlers : Finished(h) => pending[task[h].key] # h
    /\ (\A h \in Handlers : task[h].pc \in {"unused", "done"}) =>
          \A k \in Keys : pending[k] = 0

\* every handler has finished, one with an Access-Accept and one by an exception
C38_Witness ==
    /\ \A h \in Handlers : task[h].pc = "done"
    /\ \E h \in Handlers : task[h].fault = "exception" /\ Replies(h) = {}
    /\ \E i \in DOMAIN sent : sent[i].code = "Access-Accept"
    /\ \A k \in Keys : pending[k] = 0


\* C39: with a directory profile, an authenticate whose real password is empty
\* (for instance the input ",push") returns primary_failed with the message
\* "Password required"; the directory is neither searched nor bound to and the
\* cloud is not called.
C39_EmptyPassword ==
    \A h \in Handlers :
        (config.ad /\ task[h].nAuth = 1 /\ task[h].pc # "authenticate"
                   /\ task[h].real_password = << >>) =>
           /\ task[h].nBind = 0 /\ task[h].pc # "binding"
           /\ CloudCalls(h) = 0
           /\ task[h].pc \in {"primary", "engine_return", "returned"}
           /\ task[h].pc # "primary" =>
                 /\ task[h].result = "primary_failed"
                 /\ task[h].message = <<"Password required">>

\* authenticate(",push") has returned under a directory profile
C39_Witness ==
    /\ config.ad
    /\ task[1].password = <<",", "p", "u", "s", "h">>
    /\ task[1].pc = "returned"
    /\ task[1].result = "primary_failed"


\* C40: the handling of a SEARCH or a COMPARE does not depend on the bind state of
\* its connection: the responses it adds and the directory operation it makes
\* with the service credentials are a function of the request's outcome at the
\* directory and of the configuration alone, so two connections that differ only
\* in their binds get the same responses; the bind state is left as it was.
C40_Added(c) == SubSeq(conn'[c].out, Len(conn[c].out) + 1, Len(conn'[c].out))

RECURSIVE C40_Entries(_)
C40_Entries(entries) ==
    IF entries = << >> THEN << >>
    ELSE (IF Head(entries) = "ok"
          THEN << [op |-> "search_entry", code |-> 0, msg |-> << >>] >> ELSE << >>)
         \o C40_Entries(Tail(entries))

C40_SearchResponses(answer) ==
    (IF config.ad /\ answer # SearchFailure THEN C40_Entries(answer) ELSE << >>)
    \o << [op |-> "search_done", code |-> 0, msg |-> << >>] >>

C40_CompareResponses(answer) ==
    << [op |-> "compare", code |-> IF answer = "true" THEN 6 ELSE 5, msg |-> << >>] >>

C40_Step ==
    \A c \in Conns :
        (conn'[c].nOps # conn[c].nOps /\ conn'[c].nBinds = conn[c].nBinds) =>
           /\ \A answer \in SearchAnswers :
                 handle_LDAPSearchRequest(c, answer) =>
                    /\ C40_Added(c) = C40_SearchResponses(answer)
                    /\ conn'[c].dir = conn[c].dir \cup
                                         (IF config.ad THEN {"search"} ELSE {})
                    /\ conn'[c].first_bind_done = conn[c].first_bind_done
                    /\ conn'[c].auth_engine = conn[c].auth_engine
           /\ \A answer \in {"true", "false", "exception"} :
                 handle_LDAPCompareRequest(c, answer) =>
                    /\ C40_Added(c) = C40_CompareResponses(answer)
                    /\ conn'[c].dir = conn[c].dir \cup
                                         (IF config.ad THEN {"compare"} ELSE {})
                    /\ conn'[c].first_bind_done = conn[c].first_bind_done
                    /\ conn'[c].auth_engine = conn[c].auth_engine

C40_BindStateIgnored == [][C40_Step]_vars

\* the same SEARCH was answered alike on a connection with a successful BIND and
\* on one that never bound
C40_Witness ==
    \E c, d \in Conns :
        /\ conn[c].first_bind_done /\ conn[c].nBinds = 1 /\ Len(conn[c].out) = 3
        /\ conn[c].out[1].op = "bind" /\ conn[c].out[1].code = 0
        /\ ~conn[d].first_bind_done /\ conn[d].nBinds = 0 /\ Len(conn[d].out) = 2
        /\ SubSeq(conn[c].out, 2, 3) = conn[d].out
        /\ conn[d].out[1].op = "search_entry" /\ conn[d].out[2].op = "search_done"
        /\ conn[c].dir = {"search"} /\ conn[d].dir = {"search"}

=============================================================================
